---- MODULE Spec2Model ----
(***************************************************************************)
(* Model of the in-browser transcription pipeline of scriptlift.          *)
(*                                                                         *)
(* Part I models src/src/services/whisperService.ts: the module-level      *)
(* worker supervisor (worker, workerReadyPromise, workerReady), the        *)
(* worker script WORKER_CODE, and the asynchronous callers                 *)
(* transcribeWithWhisper and preloadWhisperModel.  One action is one       *)
(* macrotask of the browser event loop together with the microtasks        *)
(* (promise continuations) it triggers: a call, the delivery of one        *)
(* worker message to every registered listener, a timer firing, the        *)
(* worker's onerror event, or one step of the worker script.               *)
(* Progress messages only call onProgress and change no supervisor state;  *)
(* they are not part of this part of the model.                            *)
(***************************************************************************)
EXTENDS Integers, Sequences, FiniteSets, TLC

\* Number of calls (transcribeWithWhisper or preloadWhisperModel) made
\* during one run of the page.
NumCalls == 3

Calls == 1..NumCalls

\* Every call runs getOrCreateWorker inside initializeWorker at most once,
\* so no more worker contexts than calls are needed.
MaxCtx == NumCalls

Ctxs == 1..MaxCtx

VARIABLES
    worker,              \* let worker: 0 is null, otherwise a context id
    workerReadyPromise,  \* let workerReadyPromise: 0 is null, else the id of the call that created it
    workerReady,         \* let workerReady
    ctx,                 \* every Worker object created so far and the state of its script
    nextCtx,             \* id the next `new Worker` gets
    kind,                \* which exported function call c is
    pc,                  \* where call c is suspended
    promise,             \* state of the promise created by call c in initializeWorker
    awaiting,            \* the promise call c got back from initializeWorker
    loadTimer,           \* the setTimeout of initializeWorker for call c
    loadHandler,         \* context on which call c's load listener is registered, 0 if none
    cw,                  \* const currentWorker of transcribeWithWhisper for call c
    txTimer,             \* the setTimeout of the transcription promise of call c
    txHandler,           \* context on which call c's transcription listener is registered
    result               \* request whose output resolved call c's transcription promise

vars == <<worker, workerReadyPromise, workerReady, ctx, nextCtx, kind, pc,
          promise, awaiting, loadTimer, loadHandler, cw, txTimer, txHandler,
          result>>

callVars == <<kind, pc, promise, awaiting, loadTimer, loadHandler, cw,
              txTimer, txHandler, result>>

\* State of one diarizeSegments call (Part II).
VARIABLES
    dSegs,        \* the argument `segments`
    dPc,          \* where the call is: "off", "called", "loop", "await", "done"
    dBatchIndex,  \* let batchIndex
    dAll,         \* let allDiarizedSegments
    dOffset,      \* let speakerOffset
    dInflight,    \* batches whose supabase.functions.invoke has not answered
    dSent,        \* the request bodies sent so far, in order
    dOuts,        \* what the service did for each batch handled so far
    dProgress,    \* the messages given to onProgress, in order
    dResult       \* how the call ended and what it returned

dvars == <<dSegs, dPc, dBatchIndex, dAll, dOffset, dInflight, dSent, dOuts,
           dProgress, dResult>>

\* Number of projects on the dashboard.
NumProjects == 3

Projects == 1..NumProjects

\* React state of the Dashboard component and the stored projects
\* (Part III).
VARIABLES
    isProcessingQueue,  \* useState(false)
    qStatus,            \* status of each project in the `projects` state
    qStored,            \* status of each project in the projects table
    qPc,                \* where the processProject run for a project is suspended
    qRetrying,          \* handleRetryProject awaits its updateProject
    projectErrors       \* ids in the projectErrors state

qvars == <<isProcessingQueue, qStatus, qStored, qPc, qRetrying, projectErrors>>

\* One 'complete' message of the worker and what transcribeWithWhisper
\* makes of it (Part IV).
VARIABLES
    nOutput,    \* e.data.output of the message
    nPc,        \* "off", "waiting", "resolved" (rawSegments known), "returned"
    nSegments,  \* rawSegments
    nResult     \* the value transcribeWithWhisper resolves with

nvars == <<nOutput, nPc, nSegments, nResult>>

\* The timer transcribeWithWhisper arms for one recording (Part V).
VARIABLES
    audioDataLength,    \* audioData.length, samples at 16 kHz
    timeoutMs           \* delay of the armed timer in ms, NoTimer before

tvars == <<audioDataLength, timeoutMs>>

\* One getAudioData call (Part VI).
VARIABLES
    audioCtx,   \* "none", "running", "closed"
    decoded,    \* the AudioBuffer the file decodes to
    aPc,        \* "off", "called", "decoding", "closing", "returned", "thrown"
    mono,       \* the result of downmixToMono
    audioData   \* downsampled, or the error getAudioData throws

avars == <<audioCtx, decoded, aPc, mono, audioData>>

\* One request to the diarize edge function (Part VII).
VARIABLES
    eSegments,  \* the segments of the request body
    eReply,     \* what the model gateway answers
    ePc,        \* "off", "received", "responded"
    eResponse   \* the Response the function returns

evars == <<eSegments, eReply, ePc, eResponse>>

\* The projects table and the statements running against it (Part VIII).
VARIABLES
    sTable,     \* the committed rows: project id -> row, or NoRow
    sPending    \* per session: the row its statement is about to write

svars == <<sTable, sPending>>

\* The variables of the server side, Parts VII and VIII.
xvars == <<evars, svars>>

\* One call of downsampleBuffer, watched window by window (Part IX).
VARIABLES
    wInput,     \* the input samples
    wRate,      \* inputSampleRate
    wPc,        \* "off", "called", "returned"
    wWindows    \* per output sample: the input positions averaged for it

wvars == <<wInput, wRate, wPc, wWindows>>

\* The variables of the audio preparation and of the server side.
pvars == <<tvars, avars, xvars, wvars>>

\* The variables the worker supervisor's specification leaves alone.
nonSupVars == <<dvars, qvars, nvars, pvars>>

allVars == <<vars, dvars, qvars, nvars, pvars>>

-----------------------------------------------------------------------------
(* Worker objects *)

NoCtx ==
    [st |-> "none", transcriber |-> FALSE, isLoading |-> FALSE,
     inbox |-> <<>>, running |-> {}, outbox |-> <<>>, faulted |-> FALSE]

\* new Worker(workerUrl, {type: 'module'}): the script has not run yet.
createWorker == [NoCtx EXCEPT !.st = "starting"]

\* A terminate() that leaves the script running.
terminateNothing(w) == w

\* worker.terminate(): the script stops, queued messages in both directions
\* are discarded.  faulted only remembers that onerror fired on this context.
terminate(w) == [NoCtx EXCEPT !.st = "terminated", !.faulted = w.faulted]

Live(w) == w.st \in {"starting", "running"}

LoadMsg == [type |-> "load", req |-> 0]

TranscribeMsg(c) == [type |-> "transcribe", req |-> c]

\* A message of the worker to the page.  req names the Transcribe request an
\* answer was produced for; the real message does not carry it and no
\* listener reads it.
Out(status, req) == [status |-> status, req |-> req]

\* currentWorker.postMessage(m): dropped when the worker was terminated.
postMessage(cx, k, m) ==
    IF Live(cx[k]) THEN [cx EXCEPT ![k].inbox = Append(@, m)] ELSE cx

-----------------------------------------------------------------------------
(* The supervisor: module-level state and its functions *)

Sup ==
    [worker |-> worker, wrp |-> workerReadyPromise, ready |-> workerReady,
     ctx |-> ctx, nextCtx |-> nextCtx]

SetSup(s) ==
    /\ worker' = s.worker
    /\ workerReadyPromise' = s.wrp
    /\ workerReady' = s.ready
    /\ ctx' = s.ctx
    /\ nextCtx' = s.nextCtx

resetWorkerNoTerminate(s) ==
    [s EXCEPT !.worker = 0, !.wrp = 0, !.ready = FALSE]

resetWorker(s) ==
    [s EXCEPT !.ctx = IF s.worker # 0
                      THEN [@ EXCEPT ![s.worker] = terminate(@)]
                      ELSE @,
              !.worker = 0,
              !.wrp = 0,
              !.ready = FALSE]

getOrCreateWorker(s) ==
    IF s.worker = 0
    THEN [s EXCEPT !.worker = s.nextCtx,
                   !.ctx = [@ EXCEPT ![s.nextCtx] = createWorker],
                   !.nextCtx = @ + 1]
    ELSE s

\* A Worker can be created only while the model has an id left for it.
CanCreate(s) == s.worker # 0 \/ s.nextCtx <= MaxCtx

onWorkerErrorKeep(s) == s

\* worker.onerror = (e) => { console.error(...); resetWorker(); }
onWorkerError(s) == resetWorker(s)

onLoadTimeoutKeep(s) == s

\* The load timer's callback resets the worker before it rejects.
onLoadTimeout(s) == resetWorker(s)

\* The load listener's 'error' branch resets the worker before it rejects.
onLoadError(s) == resetWorker(s)

catchResetSkip(s) == s

\* catch (error) { resetWorker(); throw error; } of transcribeWithWhisper
catchReset(s) == resetWorker(s)

initReturnsCachedNever(s) == FALSE

\* if (workerReady && workerReadyPromise) return workerReadyPromise;
initReturnsCached(s) == s.ready /\ s.wrp # 0

\* No diarizeSegments call is modelled.
DiarOff ==
    /\ dSegs = <<>>
    /\ dPc = "off"
    /\ dBatchIndex = 0
    /\ dAll = <<>>
    /\ dOffset = 0
    /\ dInflight = {}
    /\ dSent = <<>>
    /\ dOuts = <<>>
    /\ dProgress = <<>>
    /\ dResult = [status |-> "none", value |-> <<>>]

\* The dashboard is not modelled: no project waits and none is processed.
QueueOff ==
    /\ isProcessingQueue = FALSE
    /\ qStatus = [p \in Projects |-> "COMPLETED"]
    /\ qStored = [p \in Projects |-> "COMPLETED"]
    /\ qPc = [p \in Projects |-> "none"]
    /\ qRetrying = [p \in Projects |-> FALSE]
    /\ projectErrors = {}

\* No 'complete' message is modelled.
NormOff ==
    /\ nOutput = <<>>
    /\ nPc = "off"
    /\ nSegments = <<>>
    /\ nResult = <<>>

\* No timer of a transcription is modelled.
NoTimer == 0 - 1

TimeoutOff ==
    /\ audioDataLength = 0
    /\ timeoutMs = NoTimer

\* No getAudioData call is modelled.
NoBuffer == [sampleRate |-> 0, length |-> 0, channels |-> <<>>]

\* Neither samples nor an error yet.
NoAudioData == [samples |-> <<>>, error |-> ""]

AudioOff ==
    /\ audioCtx = "none"
    /\ decoded = NoBuffer
    /\ aPc = "off"
    /\ mono = <<>>
    /\ audioData = NoAudioData

\* No request to the edge function is modelled.
EdgeOff ==
    /\ eSegments = <<>>
    /\ eReply = <<>>
    /\ ePc = "off"
    /\ eResponse = <<>>

\* The projects table is not modelled.
StorageOff ==
    /\ sTable = <<>>
    /\ sPending = <<>>

ServerOff == EdgeOff /\ StorageOff

\* No call of downsampleBuffer is watched.
WindowsOff ==
    /\ wInput = <<>>
    /\ wRate = 0
    /\ wPc = "off"
    /\ wWindows = <<>>

PrepOff == TimeoutOff /\ AudioOff /\ ServerOff /\ WindowsOff

-----------------------------------------------------------------------------
\* The module-level state of whisperService.ts when the page has loaded,
\* and no call made yet.
SupInit ==
    /\ worker = 0
    /\ workerReadyPromise = 0
    /\ workerReady = FALSE
    /\ ctx = [k \in Ctxs |-> NoCtx]
    /\ nextCtx = 1
    /\ kind = [c \in Calls |-> "none"]
    /\ pc = [c \in Calls |-> "idle"]
    /\ promise = [c \in Calls |-> "none"]
    /\ awaiting = [c \in Calls |-> 0]
    /\ loadTimer = [c \in Calls |-> "none"]
    /\ loadHandler = [c \in Calls |-> 0]
    /\ cw = [c \in Calls |-> 0]
    /\ txTimer = [c \in Calls |-> "none"]
    /\ txHandler = [c \in Calls |-> 0]
    /\ result = [c \in Calls |-> 0]

Init == SupInit /\ DiarOff /\ QueueOff /\ NormOff /\ PrepOff

-----------------------------------------------------------------------------
(* Callers *)

\* Calls are numbered in the order in which they are made.
NextToCall(c) == pc[c] = "idle" /\ (IF c = 1 THEN TRUE ELSE pc[c - 1] # "idle")

\* The listeners of all calls registered on context k.
LoadListeners(k) == {c \in Calls : loadHandler[c] = k}

TxListeners(k) == {c \in Calls : txHandler[c] = k}

\* The calls suspended in `await initializeWorker(...)` (or in the .catch of
\* preloadWhisperModel) on one of the promises P.
Waiters(P) == {c \in Calls : pc[c] = "loading" /\ awaiting[c] \in P}

\* initializeWorker(onProgress) called by call c, followed by what the caller
\* does in the same task: preloadWhisperModel attaches .catch and returns;
\* transcribeWithWhisper awaits, and when the promise it got is already
\* settled its continuation runs as a microtask of the same task.
InitializeWorker(c, k) ==
    /\ kind' = [kind EXCEPT ![c] = k]
    /\ IF initReturnsCached(Sup)
       THEN /\ awaiting' = [awaiting EXCEPT ![c] = workerReadyPromise]
            /\ UNCHANGED <<promise, loadTimer, loadHandler>>
            /\ CASE k = "preload" ->
                     /\ pc' = [pc EXCEPT ![c] =
                           IF promise[workerReadyPromise] = "pending"
                           THEN "loading" ELSE "done"]
                     /\ UNCHANGED <<worker, workerReadyPromise, workerReady,
                                    ctx, nextCtx, cw>>
                 [] k = "transcribe" /\ promise[workerReadyPromise] = "resolved" ->
                     LET s == getOrCreateWorker(Sup) IN
                     /\ CanCreate(Sup)
                     /\ SetSup(s)
                     /\ cw' = [cw EXCEPT ![c] = s.worker]
                     /\ pc' = [pc EXCEPT ![c] = "decoding"]
                 [] k = "transcribe" /\ promise[workerReadyPromise] = "rejected" ->
                     /\ SetSup(catchReset(Sup))
                     /\ pc' = [pc EXCEPT ![c] = "rejected"]
                     /\ UNCHANGED cw
                 [] OTHER ->
                     /\ pc' = [pc EXCEPT ![c] = "loading"]
                     /\ UNCHANGED <<worker, workerReadyPromise, workerReady,
                                    ctx, nextCtx, cw>>
       ELSE LET s == getOrCreateWorker(Sup) IN
            /\ CanCreate(Sup)
            /\ SetSup([s EXCEPT !.wrp = c])
            /\ promise' = [promise EXCEPT ![c] = "pending"]
            /\ loadTimer' = [loadTimer EXCEPT ![c] = "armed"]
            /\ loadHandler' = [loadHandler EXCEPT ![c] = s.worker]
            /\ awaiting' = [awaiting EXCEPT ![c] = c]
            /\ pc' = [pc EXCEPT ![c] = "loading"]
            /\ UNCHANGED cw
    /\ UNCHANGED <<txTimer, txHandler, result>>

\* transcribeWithWhisper(file, onProgress) up to its first suspension.
TranscribeCall(c) ==
    /\ NextToCall(c)
    /\ InitializeWorker(c, "transcribe")

\* preloadWhisperModel(onProgress)
PreloadCall(c) ==
    /\ NextToCall(c)
    /\ InitializeWorker(c, "preload")

\* The continuations of the calls W whose awaited initializeWorker promise
\* was resolved: transcribeWithWhisper takes currentWorker and starts
\* getAudioData, preloadWhisperModel has nothing left to do.
AfterLoadResolved(W, s) ==
    LET TW == {c \in W : kind[c] = "transcribe"}
        s1 == IF TW # {} THEN getOrCreateWorker(s) ELSE s
    IN  /\ TW # {} => CanCreate(s)
        /\ SetSup(s1)
        /\ pc' = [c \in Calls |-> IF c \in TW THEN "decoding"
                                  ELSE IF c \in W THEN "done" ELSE pc[c]]
        /\ cw' = [c \in Calls |-> IF c \in TW THEN s1.worker ELSE cw[c]]

\* The continuations of the calls W whose awaited initializeWorker promise
\* was rejected, and of the calls T whose transcription promise was
\* rejected: transcribeWithWhisper runs its catch block and rethrows,
\* preloadWhisperModel logs the error.
AfterRejected(W, T, s) ==
    LET TW == {c \in W : kind[c] = "transcribe"} \cup T
        s1 == IF TW # {} THEN catchReset(s) ELSE s
    IN  /\ SetSup(s1)
        /\ pc' = [c \in Calls |-> IF c \in TW THEN "rejected"
                                  ELSE IF c \in W THEN "done" ELSE pc[c]]

\* getAudioData succeeded: the transcription promise's executor arms the
\* timer, registers the listener and posts the decoded buffer.
DecodeOk(c) ==
    /\ pc[c] = "decoding"
    /\ txTimer' = [txTimer EXCEPT ![c] = "armed"]
    /\ txHandler' = [txHandler EXCEPT ![c] = cw[c]]
    /\ ctx' = postMessage(ctx, cw[c], TranscribeMsg(c))
    /\ pc' = [pc EXCEPT ![c] = "transcribing"]
    /\ UNCHANGED <<worker, workerReadyPromise, workerReady, nextCtx, kind,
                   promise, awaiting, loadTimer, loadHandler, cw, result>>

\* getAudioData threw (decode error, decode timeout, unsupported rate).
DecodeFail(c) ==
    /\ pc[c] = "decoding"
    /\ AfterRejected({}, {c}, Sup)
    /\ UNCHANGED <<kind, promise, awaiting, loadTimer, loadHandler, cw,
                   txTimer, txHandler, result>>

\* diarizeSegments returned (it catches its own errors).
DiarizeDone(c) ==
    /\ pc[c] = "diarizing"
    /\ pc' = [pc EXCEPT ![c] = "resolved"]
    /\ UNCHANGED <<worker, workerReadyPromise, workerReady, ctx, nextCtx,
                   kind, promise, awaiting, loadTimer, loadHandler, cw,
                   txTimer, txHandler, result>>

-----------------------------------------------------------------------------
(* Timers and the worker's error event *)

\* The 5-minute timer of initializeWorker fires.
LoadTimeout(c) ==
    /\ loadTimer[c] = "armed"
    /\ loadTimer' = [loadTimer EXCEPT ![c] = "fired"]
    /\ promise' = [promise EXCEPT ![c] = "rejected"]
    /\ AfterRejected(Waiters({c}), {}, onLoadTimeout(Sup))
    /\ UNCHANGED <<kind, awaiting, loadHandler, cw, txTimer, txHandler,
                   result>>

\* The transcription timer fires.
TranscribeTimeout(c) ==
    /\ txTimer[c] = "armed"
    /\ txTimer' = [txTimer EXCEPT ![c] = "fired"]
    /\ AfterRejected({}, {c}, Sup)
    /\ UNCHANGED <<kind, promise, awaiting, loadTimer, loadHandler, cw,
                   txHandler, result>>

\* worker.onerror fires on context k: the script failed to load or raised
\* an uncaught error.
Fault(k) ==
    /\ Live(ctx[k])
    /\ SetSup(onWorkerError([Sup EXCEPT !.ctx = [@ EXCEPT ![k].faulted = TRUE]]))
    /\ UNCHANGED callVars

-----------------------------------------------------------------------------
(* The worker script WORKER_CODE, one context k *)

WorkerStep(k, w) ==
    /\ ctx' = [ctx EXCEPT ![k] = w]
    /\ UNCHANGED <<worker, workerReadyPromise, workerReady, nextCtx>>
    /\ UNCHANGED callVars

\* The module is evaluated: the listener is installed and 'alive' is posted.
WorkerBoot(k) ==
    /\ ctx[k].st = "starting"
    /\ WorkerStep(k, [ctx[k] EXCEPT !.st = "running",
                                    !.outbox = Append(@, Out("alive", 0))])

\* The listener receives {type: 'load'}.
WorkerRecvLoad(k) ==
    LET w == ctx[k] IN
    /\ w.st = "running"
    /\ w.inbox # <<>>
    /\ Head(w.inbox).type = "load"
    /\ WorkerStep(k,
          IF w.isLoading
          THEN [w EXCEPT !.inbox = Tail(@)]
          ELSE IF w.transcriber
          THEN [w EXCEPT !.inbox = Tail(@),
                         !.outbox = Append(@, Out("ready", 0))]
          ELSE [w EXCEPT !.inbox = Tail(@), !.isLoading = TRUE])

\* await pipeline(...) returns: 'ready' is posted, finally clears isLoading.
WorkerLoadDone(k) ==
    LET w == ctx[k] IN
    /\ w.st = "running"
    /\ w.isLoading
    /\ WorkerStep(k, [w EXCEPT !.transcriber = TRUE,
                               !.isLoading = FALSE,
                               !.outbox = Append(@, Out("ready", 0))])

\* await pipeline(...) throws: 'error' is posted, finally clears isLoading.
WorkerLoadFail(k) ==
    LET w == ctx[k] IN
    /\ w.st = "running"
    /\ w.isLoading
    /\ WorkerStep(k, [w EXCEPT !.isLoading = FALSE,
                               !.outbox = Append(@, Out("error", 0))])

\* The listener receives {type: 'transcribe', audio}.
WorkerRecvTranscribe(k) ==
    LET w == ctx[k] IN
    /\ w.st = "running"
    /\ w.inbox # <<>>
    /\ Head(w.inbox).type = "transcribe"
    /\ WorkerStep(k,
          IF ~w.transcriber
          THEN [w EXCEPT !.inbox = Tail(@),
                         !.outbox = Append(@, Out("error", Head(w.inbox).req))]
          ELSE [w EXCEPT !.inbox = Tail(@),
                         !.running = @ \cup {Head(w.inbox).req}])

\* await transcriber(audio, ...) returns for request r.
WorkerInferDone(k, r) ==
    LET w == ctx[k] IN
    /\ w.st = "running"
    /\ r \in w.running
    /\ WorkerStep(k, [w EXCEPT !.running = @ \ {r},
                               !.outbox = Append(@, Out("complete", r))])

\* await transcriber(audio, ...) throws for request r.
WorkerInferFail(k, r) ==
    LET w == ctx[k] IN
    /\ w.st = "running"
    /\ r \in w.running
    /\ WorkerStep(k, [w EXCEPT !.running = @ \ {r},
                               !.outbox = Append(@, Out("error", r))])

-----------------------------------------------------------------------------
(* Delivery of one worker message to the listeners registered on context k *)

Deliverable(k, status) ==
    /\ ctx[k].st = "running"
    /\ ctx[k].outbox # <<>>
    /\ Head(ctx[k].outbox).status = status

\* The supervisor after the message at the head of k's queue was taken.
Taken(k) == [Sup EXCEPT !.ctx = [@ EXCEPT ![k].outbox = Tail(@)]]

\* 'alive': every load listener sends the load command.
DeliverAlive(k) ==
    /\ Deliverable(k, "alive")
    /\ LET n == Cardinality(LoadListeners(k))
           loads == [i \in 1..n |-> LoadMsg]
       IN  ctx' = [ctx EXCEPT ![k].outbox = Tail(@),
                              ![k].inbox = @ \o loads]
    /\ UNCHANGED <<worker, workerReadyPromise, workerReady, nextCtx>>
    /\ UNCHANGED callVars

\* 'ready': every load listener clears its timer, removes itself, sets
\* workerReady and resolves its promise.
DeliverReady(k) ==
    /\ Deliverable(k, "ready")
    /\ LET L == LoadListeners(k)
           P == {c \in L : promise[c] = "pending"}
           s == [Taken(k) EXCEPT !.ready = IF L # {} THEN TRUE ELSE @]
       IN  /\ promise' = [c \in Calls |-> IF c \in P THEN "resolved" ELSE promise[c]]
           /\ loadTimer' = [c \in Calls |-> IF c \in L /\ loadTimer[c] = "armed"
                                            THEN "cleared" ELSE loadTimer[c]]
           /\ loadHandler' = [c \in Calls |-> IF c \in L THEN 0 ELSE loadHandler[c]]
           /\ AfterLoadResolved(Waiters(P), s)
    /\ UNCHANGED <<kind, awaiting, txTimer, txHandler, result>>

\* 'error': every load listener clears its timer, removes itself, resets the
\* worker and rejects; every transcription listener clears its timer,
\* removes itself and rejects.
DeliverError(k) ==
    /\ Deliverable(k, "error")
    /\ LET L == LoadListeners(k)
           P == {c \in L : promise[c] = "pending"}
           T == TxListeners(k)
           s == IF L # {} THEN onLoadError(Taken(k)) ELSE Taken(k)
       IN  /\ promise' = [c \in Calls |-> IF c \in P THEN "rejected" ELSE promise[c]]
           /\ loadTimer' = [c \in Calls |-> IF c \in L /\ loadTimer[c] = "armed"
                                            THEN "cleared" ELSE loadTimer[c]]
           /\ loadHandler' = [c \in Calls |-> IF c \in L THEN 0 ELSE loadHandler[c]]
           /\ txTimer' = [c \in Calls |-> IF c \in T /\ txTimer[c] = "armed"
                                          THEN "cleared" ELSE txTimer[c]]
           /\ txHandler' = [c \in Calls |-> IF c \in T THEN 0 ELSE txHandler[c]]
           /\ AfterRejected(Waiters(P), {c \in T : pc[c] = "transcribing"}, s)
    /\ UNCHANGED <<kind, awaiting, cw, result>>

\* 'complete': every transcription listener clears its timer, removes itself
\* and resolves with the segments built from this output; the call goes on
\* to diarizeSegments.
DeliverComplete(k) ==
    /\ Deliverable(k, "complete")
    /\ LET T == TxListeners(k)
           R == {c \in T : pc[c] = "transcribing"}
       IN  /\ txTimer' = [c \in Calls |-> IF c \in T /\ txTimer[c] = "armed"
                                          THEN "cleared" ELSE txTimer[c]]
           /\ txHandler' = [c \in Calls |-> IF c \in T THEN 0 ELSE txHandler[c]]
           /\ result' = [c \in Calls |-> IF c \in R
                                         THEN Head(ctx[k].outbox).req ELSE result[c]]
           /\ pc' = [c \in Calls |-> IF c \in R THEN "diarizing" ELSE pc[c]]
           /\ ctx' = [ctx EXCEPT ![k].outbox = Tail(@)]
    /\ UNCHANGED <<worker, workerReadyPromise, workerReady, nextCtx, kind,
                   promise, awaiting, loadTimer, loadHandler, cw>>

-----------------------------------------------------------------------------
Next ==
    \/ \E c \in Calls : TranscribeCall(c) /\ UNCHANGED nonSupVars
    \/ \E c \in Calls : PreloadCall(c) /\ UNCHANGED nonSupVars
    \/ \E c \in Calls : DecodeOk(c) /\ UNCHANGED nonSupVars
    \/ \E c \in Calls : DecodeFail(c) /\ UNCHANGED nonSupVars
    \/ \E c \in Calls : DiarizeDone(c) /\ UNCHANGED nonSupVars
    \/ \E c \in Calls : LoadTimeout(c) /\ UNCHANGED nonSupVars
    \/ \E c \in Calls : TranscribeTimeout(c) /\ UNCHANGED nonSupVars
    \/ \E k \in Ctxs : Fault(k) /\ UNCHANGED nonSupVars
    \/ \E k \in Ctxs : WorkerBoot(k) /\ UNCHANGED nonSupVars
    \/ \E k \in Ctxs : WorkerRecvLoad(k) /\ UNCHANGED nonSupVars
    \/ \E k \in Ctxs : WorkerLoadDone(k) /\ UNCHANGED nonSupVars
    \/ \E k \in Ctxs : WorkerLoadFail(k) /\ UNCHANGED nonSupVars
    \/ \E k \in Ctxs : WorkerRecvTranscribe(k) /\ UNCHANGED nonSupVars
    \/ \E k \in Ctxs, r \in Calls : WorkerInferDone(k, r) /\ UNCHANGED nonSupVars
    \/ \E k \in Ctxs, r \in Calls : WorkerInferFail(k, r) /\ UNCHANGED nonSupVars
    \/ \E k \in Ctxs : DeliverAlive(k) /\ UNCHANGED nonSupVars
    \/ \E k \in Ctxs : DeliverReady(k) /\ UNCHANGED nonSupVars
    \/ \E k \in Ctxs : DeliverError(k) /\ UNCHANGED nonSupVars
    \/ \E k \in Ctxs : DeliverComplete(k) /\ UNCHANGED nonSupVars

Spec == Init /\ [][Next]_allVars

\* The timers of initializeWorker, of withTimeout and of the transcription
\* promise fire when they are armed, and withTimeout settles the decode.
\* Nothing times the diarization call: diarizeSegments awaits
\* supabase.functions.invoke as long as the service takes.
TimersFire ==
    \A c \in Calls :
        /\ WF_allVars(LoadTimeout(c) /\ UNCHANGED nonSupVars)
        /\ WF_allVars(TranscribeTimeout(c) /\ UNCHANGED nonSupVars)
        /\ WF_allVars((DecodeOk(c) \/ DecodeFail(c)) /\ UNCHANGED nonSupVars)

FairSpec == Spec /\ TimersFire

-----------------------------------------------------------------------------
(* Properties of the worker supervisor and the dispatcher *)

LiveCtxs == {k \in Ctxs : Live(ctx[k])}

\* The Transcribe requests context k has received or is working on.
InFlight(k) ==
    {ctx[k].inbox[i].req : i \in {j \in 1..Len(ctx[k].inbox) :
                                     ctx[k].inbox[j].type = "transcribe"}}
        \cup ctx[k].running

Uninitialized == worker = 0 /\ ~workerReady /\ workerReadyPromise = 0

\* Call c is made in this step.
Called(c) == pc[c] = "idle" /\ pc'[c] # "idle"

\* C1: at most one Transcribe request is in flight on a worker at any time,
\* whatever the interleaving of transcribeWithWhisper calls.
C1_OneTranscribeInFlight ==
    \A k \in Ctxs : Cardinality(InFlight(k)) <= 1

\* C2: while a load is in flight on a worker context, a second
\* initializeWorker call creates no second load promise, timer or listener
\* for that context.
C2_NoDuplicateLoad ==
    \A k \in LiveCtxs :
        Cardinality({c \in LoadListeners(k) : promise[c] = "pending"}) <= 1

\* C3: in the step in which a transcribeWithWhisper call rejects, resetWorker
\* has run: afterwards no worker context is alive and the supervisor is
\* Uninitialized.
C3_ResetBeforeReject ==
    [][\A c \in Calls :
          (pc[c] # "rejected" /\ pc'[c] = "rejected")
              => /\ worker' = 0
                 /\ ~workerReady'
                 /\ workerReadyPromise' = 0
                 /\ \A k \in Ctxs : ~Live(ctx'[k])]_vars

\* A call was rejected after it had dispatched to a worker that is now
\* terminated.
C3_Witness ==
    \E c \in Calls :
        /\ pc[c] = "rejected"
        /\ txTimer[c] \in {"fired", "cleared"}
        /\ ctx[cw[c]].st = "terminated"
        /\ worker = 0

\* C4: every call's transcription promise resolves only with the output of
\* the Transcribe request the call sent itself.
C4_OwnOutputOnly ==
    \A c \in Calls : result[c] \in {0, c}

\* C5: a load promise is rejected only by its timer firing or by an 'error'
\* answer of the worker; when the timer fires the promise is rejected, the
\* context that was loading is terminated and the supervisor holds no
\* worker; a call made while no worker is held creates a new context, never
\* one whose load timed out, and registers a new listener and timer on it.
C5_LoadTimeout ==
    [][\A c \in Calls :
          /\ (promise[c] = "pending" /\ promise'[c] = "rejected")
                => \/ loadTimer[c] = "armed" /\ loadTimer'[c] = "fired"
                   \/ /\ loadTimer'[c] = "cleared"
                      /\ Deliverable(loadHandler[c], "error")
          /\ (loadTimer[c] = "armed" /\ loadTimer'[c] = "fired")
                => /\ promise'[c] = "rejected"
                   /\ ~Live(ctx'[loadHandler[c]])
                   /\ worker' = 0
          /\ Called(c)
                => /\ worker' # 0
                   /\ Live(ctx'[worker'])
                   /\ \A d \in Calls :
                         loadTimer[d] = "fired" => loadHandler[d] # worker'
          /\ (Called(c) /\ worker = 0)
                => /\ worker' = nextCtx
                   /\ nextCtx' = nextCtx + 1
                   /\ ctx[worker'].st = "none"
                   /\ ctx'[worker'] = createWorker
                   /\ promise'[c] = "pending"
                   /\ loadTimer'[c] = "armed"
                   /\ loadHandler'[c] = worker']_vars

\* A load timed out, and a later call is loading on another context that
\* has received its Load command.
C5_Witness ==
    \E c, d \in Calls :
        /\ loadTimer[d] = "fired"
        /\ loadTimer[c] = "armed"
        /\ loadHandler[c] > loadHandler[d]
        /\ ctx[loadHandler[c]].isLoading

\* C6: when worker.onerror fires on a context, the context is reset and the
\* calls with a load or a transcription in flight on it are failed in
\* consequence.
C6_FaultFailsInFlight ==
    [][\A k \in Ctxs :
          (~ctx[k].faulted /\ ctx'[k].faulted)
              => /\ ~Live(ctx'[k])
                 /\ \A c \in Calls :
                       (\/ pc[c] = "loading" /\ loadHandler[c] = k
                        \/ pc[c] = "transcribing" /\ txHandler[c] = k)
                           => pc'[c] \in {"rejected", "done"}]_vars

\* C7: a Transcribe request is posted only to the worker the supervisor
\* holds, and only while that worker is Ready.
C7_DispatchOnlyWhenReady ==
    [][\A c \in Calls :
          (pc[c] = "decoding" /\ pc'[c] = "transcribing")
              => /\ cw[c] = worker
                 /\ workerReady
                 /\ ctx[cw[c]].st = "running"
                 /\ ctx[cw[c]].transcriber]_vars

\* C8: at most one worker context is alive, and it is the one the
\* supervisor holds.
C8_SingleContext ==
    /\ Cardinality(LiveCtxs) <= 1
    /\ \A k \in LiveCtxs : worker = k

\* A context was terminated and a later one is alive.
C8_Witness ==
    \E k \in Ctxs :
        /\ ctx[k].st = "terminated"
        /\ worker > k
        /\ ctx[worker].st = "running"

\* C9: every failure (a load promise rejected, a transcribeWithWhisper call
\* rejected, worker.onerror) leaves the supervisor Uninitialized, and a call
\* made while it is Uninitialized creates a new worker context with a new
\* load promise, listener and timer.
C9_FailedNotTerminal ==
    [][/\ \A c \in Calls :
             (\/ promise[c] = "pending" /\ promise'[c] = "rejected"
              \/ pc[c] # "rejected" /\ pc'[c] = "rejected")
                => Uninitialized'
       /\ \A k \in Ctxs :
             (~ctx[k].faulted /\ ctx'[k].faulted) => Uninitialized'
       /\ \A c \in Calls :
             (Called(c) /\ Uninitialized)
                => /\ worker' = nextCtx
                   /\ ctx'[worker'] = createWorker
                   /\ workerReadyPromise' = c
                   /\ promise'[c] = "pending"
                   /\ loadHandler'[c] = worker'
                   /\ loadTimer'[c] = "armed"
                   /\ ~workerReady']_vars

\* After a fault, a load failure and a failed transcription the supervisor
\* is Ready again on a new context.
C9_Witness ==
    /\ workerReady
    /\ ctx[worker].st = "running"
    /\ ctx[worker].transcriber
    /\ \E k \in Ctxs : k < worker /\ ctx[k].st = "terminated"
    /\ \E c \in Calls : pc[c] = "rejected"

\* C10: a call made while workerReady is set gets the stored promise, which
\* is already resolved, and changes nothing of the supervisor: no worker,
\* promise, listener or timer is created.
C10_InitIdempotentWhenReady ==
    [][\A c \in Calls :
          (Called(c) /\ workerReady)
              => /\ UNCHANGED <<worker, workerReadyPromise, workerReady, ctx,
                               nextCtx, promise, loadTimer, loadHandler>>
                 /\ workerReadyPromise # 0
                 /\ awaiting'[c] = workerReadyPromise
                 /\ promise[workerReadyPromise] = "resolved"
                 /\ pc'[c] \in {"decoding", "done"}]_vars

\* A call was made while the supervisor was Ready and got another call's
\* load promise.
C10_Witness ==
    \E c \in Calls : awaiting[c] \notin {0, c}

\* C11: from every state of the supervisor resetWorker leaves worker = null,
\* workerReadyPromise = null and workerReady = false, with the worker it
\* held terminated; applying it twice gives the state of applying it once.
C11_ResetWorkerClears ==
    LET s == resetWorker(Sup) IN
        /\ s.worker = 0
        /\ s.wrp = 0
        /\ ~s.ready
        /\ worker # 0 => s.ctx[worker].st = "terminated"
        /\ \A k \in Ctxs \ {worker} : s.ctx[k] = ctx[k]
        /\ s.nextCtx = nextCtx
        /\ resetWorker(s) = s

\* resetWorker ran while a call had a transcription in flight (Busy): the
\* worker the call dispatched to is terminated and nothing is held.
C11_Witness ==
    \E c \in Calls :
        /\ pc[c] = "transcribing"
        /\ txTimer[c] = "armed"
        /\ ctx[cw[c]].st = "terminated"
        /\ Uninitialized

\* C12: every transcribeWithWhisper call eventually resolves or rejects,
\* whatever the decoder, the worker and the diarization service do, as long
\* as timers fire.
C12_EveryCallSettles ==
    \A c \in Calls :
        (kind[c] = "transcribe") ~> (pc[c] \in {"resolved", "rejected"})

-----------------------------------------------------------------------------
(***************************************************************************)
(* Part II: src/src/services/diarizationService.ts (diarizeSegments) and   *)
(* the edge function src/supabase/functions/diarize/index.ts it invokes.   *)
(* A string is the sequence of its characters, so that the regular         *)
(* expression, parseInt and the template literal of the relabelling are    *)
(* computed and not assumed.  One action is the part of the async function *)
(* that runs without suspending: from the call to the first await or       *)
(* return, and from an answer of the service to the next await or return.  *)
(***************************************************************************)

\* const MAX_SEGMENTS_PER_BATCH = 100;
MAX_SEGMENTS_PER_BATCH == 100

\* Largest number of batches an input of the model is split into.
DMaxBatches == 3

Min(a, b) == IF a < b THEN a ELSE b

DigitChars == <<"0", "1", "2", "3", "4", "5", "6", "7", "8", "9">>

IsDigit(ch) == \E d \in 1..10 : DigitChars[d] = ch

DigitVal(ch) == (CHOOSE d \in 1..10 : DigitChars[d] = ch) - 1

\* A JavaScript number: NaN or an integer.
NaN == [nan |-> TRUE, v |-> 0]

Num(n) == [nan |-> FALSE, v |-> n]

\* a + b on numbers: NaN if either is NaN.
NumAdd(a, b) == IF a.nan \/ b.nan THEN NaN ELSE Num(a.v + b.v)

RECURSIVE NatToString(_)
NatToString(n) ==
    IF n < 10 THEN <<DigitChars[n + 1]>>
    ELSE NatToString(n \div 10) \o <<DigitChars[(n % 10) + 1]>>

\* `${x}` for a number x.
NumToString(x) == IF x.nan THEN <<"N", "a", "N">> ELSE NatToString(x.v)

RECURSIVE DigitsValue(_, _)
DigitsValue(s, acc) ==
    IF s = <<>> \/ ~IsDigit(Head(s)) THEN acc
    ELSE DigitsValue(Tail(s), 10 * acc + DigitVal(Head(s)))

\* parseInt(s, 10) for s without sign or leading blanks: the value of the
\* leading decimal digits, NaN when s does not start with a digit.
parseInt(s) ==
    IF s = <<>> \/ ~IsDigit(Head(s)) THEN NaN ELSE Num(DigitsValue(s, 0))

SpeakerPrefix == <<"S", "p", "e", "a", "k", "e", "r", " ">>

\* s has the characters of w from position i on.
HasAt(s, i, w) ==
    /\ i + Len(w) - 1 <= Len(s)
    /\ \A j \in 1..Len(w) : s[i + j - 1] = w[j]

\* Length of the longest run of character ch in s that starts at position i.
RECURSIVE RunLength(_, _, _)
RunLength(s, i, ch) ==
    IF i <= Len(s) /\ s[i] = ch THEN 1 + RunLength(s, i + 1, ch) ELSE 0

\* "Speaker ", a backslash and the letter d: the shortest text the pattern
\* matches.
SpeakerBackslashDChars == SpeakerPrefix \o <<"\\", "d">>

\* The positions at which /Speaker (\\d+)/ matches s.  In the regular
\* expression literal \\ is an escaped backslash, so the pattern is
\* "Speaker ", one backslash character, then one or more letters d.
MatchStarts(s) == {i \in 1..Len(s) : HasAt(s, i, SpeakerBackslashDChars)}

\* s.match(/Speaker (\\d+)/): whether it matched and the text of group 1
\* (the leftmost match, the group greedy).
match(s) ==
    IF MatchStarts(s) = {}
    THEN [matched |-> FALSE, group |-> <<>>]
    ELSE LET i == CHOOSE m \in MatchStarts(s) : \A x \in MatchStarts(s) : m <= x
             g == i + Len(SpeakerPrefix) + 1
         IN  [matched |-> TRUE,
              group |-> SubSeq(s, g, g + RunLength(s, g, "d") - 1)]

\* A value of the `speaker` field as it travels through JSON: a string, or
\* a value of another type (a number the model gives back for a speaker)
\* written with the characters s.
StringLabel(s) == [isString |-> TRUE, s |-> s]

NumberLabel(s) == [isString |-> FALSE, s |-> s]

\* "Speaker <n>"
SpeakerN(n) == StringLabel(SpeakerPrefix \o NatToString(n))

\* The string made of "Speaker ", a backslash and the letter d.
SpeakerBackslashD == StringLabel(SpeakerBackslashDChars)

Host == StringLabel(<<"H", "o", "s", "t">>)

\* JavaScript truthiness of a speaker value.
Truthy(l) == IF l.isString THEN l.s # <<>> ELSE l.s # <<"0">>

\* rawSegments as transcribeWithWhisper builds them: n segments, each with
\* its own timestamp and text and the placeholder speaker "Speaker 1".
rawSegments(n) ==
    [i \in 1..n |-> [timestamp |-> i, text |-> i, speaker |-> SpeakerN(1)]]

\* segments.slice(from, to), from and to counted from 0.
slice(segs, from, to) == SubSeq(segs, from + 1, Min(to, Len(segs)))

NumBatches(segs) ==
    (Len(segs) + MAX_SEGMENTS_PER_BATCH - 1) \div MAX_SEGMENTS_PER_BATCH

\* const batches, batch b counted from 0.
batches(segs) ==
    [b \in 1..NumBatches(segs) |->
        slice(segs, (b - 1) * MAX_SEGMENTS_PER_BATCH,
                    (b - 1) * MAX_SEGMENTS_PER_BATCH + MAX_SEGMENTS_PER_BATCH)]

\* The lengths of the inputs: the short transcripts and, for every number
\* of batches, the shortest and the longest input split into that many.
DLens ==
    {0, 1, 2, 3}
        \cup {MAX_SEGMENTS_PER_BATCH * (k - 1) + 1 : k \in 1..DMaxBatches}
        \cup {MAX_SEGMENTS_PER_BATCH * k : k \in 1..DMaxBatches}

-----------------------------------------------------------------------------
(* The edge function and supabase.functions.invoke *)

NoAssignment == StringLabel(<<>>)

\* What can happen to one invoke("diarize") call.  "throws": the call
\* itself fails with an exception.  "nosegments": it answers with data
\* that has no segments.  "error": the edge function answers 429, 402 or
\* 500 (model gateway refused, key missing, exception), or the request
\* fails.  "unparsable": the model's text holds no JSON the function can
\* parse.  "assign": the model's JSON gives segment i of the batch the
\* speaker cycle[(i % Len(cycle)) + 1], or no speaker where that is
\* NoAssignment.
Outcome(what, cycle) == [kind |-> what, cycle |-> cycle]

Outcomes ==
    {Outcome("throws", <<>>), Outcome("nosegments", <<>>),
     Outcome("error", <<>>), Outcome("unparsable", <<>>),
     Outcome("assign", <<SpeakerN(1), SpeakerN(2)>>),
     Outcome("assign", <<SpeakerN(2), NoAssignment>>),
     Outcome("assign", <<SpeakerBackslashD, Host>>),
     Outcome("assign", <<SpeakerN(1), NumberLabel(<<"7">>)>>)}

\* speakerAssignments.find(a => a.index === i)?.speaker, i counted from 0
assignment(o, i) == o.cycle[(i % Len(o.cycle)) + 1]

applyKeepAssigned(segments, o) ==
    SelectSeq([i \in 1..Len(segments) |->
                  [segments[i] EXCEPT !.speaker = assignment(o, i - 1)]],
              LAMBDA seg : Truthy(seg.speaker))

\* const diarizedSegments = segments.map((seg, i) => ({...seg,
\*     speaker: assignment?.speaker || seg.speaker}))
applyAssignments(segments, o) ==
    [i \in 1..Len(segments) |->
        [segments[i] EXCEPT
            !.speaker = IF Truthy(assignment(o, i - 1))
                        THEN assignment(o, i - 1)
                        ELSE @]]

\* What `await supabase.functions.invoke("diarize", {body: {segments}})`
\* gives: an exception, or {data, error}.  hasSegments is whether
\* data?.segments is truthy.
Reply(threw, error, hasSegments, segments) ==
    [threw |-> threw, error |-> error, hasSegments |-> hasSegments,
     segments |-> segments]

invoke(segments, o) ==
    CASE o.kind = "throws"     -> Reply(TRUE, FALSE, FALSE, <<>>)
      [] o.kind = "nosegments" -> Reply(FALSE, FALSE, FALSE, <<>>)
      [] o.kind = "error"      -> Reply(FALSE, TRUE, FALSE, <<>>)
      [] o.kind = "unparsable" -> Reply(FALSE, FALSE, TRUE, segments)
      [] o.kind = "assign"     ->
             Reply(FALSE, FALSE, TRUE, applyAssignments(segments, o))

-----------------------------------------------------------------------------
(* diarizeSegments *)

\* seg => { if (batchIndex > 0 && seg.speaker) { const match = ...;
\*   if (match) return {...seg, speaker: `Speaker ${num + speakerOffset}`} }
\*   return seg }
relabel(seg, batchIndex, speakerOffset) ==
    IF batchIndex > 0 /\ Truthy(seg.speaker) /\ match(seg.speaker.s).matched
    THEN [seg EXCEPT !.speaker =
             StringLabel(SpeakerPrefix \o
                 NumToString(NumAdd(parseInt(match(seg.speaker.s).group),
                                    Num(speakerOffset))))]
    ELSE seg

\* seg.speaker.match is not a function when the speaker is not a string:
\* the map callback raises a TypeError.
relabelThrows(seg, batchIndex) ==
    batchIndex > 0 /\ Truthy(seg.speaker) /\ ~seg.speaker.isString

\* new Set(batchSegments.map(s => s.speaker)).size
speakersInBatch(batchSegments) ==
    {batchSegments[i].speaker : i \in 1..Len(batchSegments)}

\* The locals the loop carries from batch to batch.
Loop(all, offset, threw) == [all |-> all, offset |-> offset, threw |-> threw]

onServiceErrorDrop(l, batch) == l

\* The error branch, were it to start the offset again from 0.
onServiceErrorResetOffset(l, batch) == [l EXCEPT !.all = @ \o batch, !.offset = 0]

\* if (error) { allDiarizedSegments = [...allDiarizedSegments, ...batch];
\*              continue; }
onServiceError(l, batch) == [l EXCEPT !.all = @ \o batch]

\* The body of the for loop after the await, for the answer r to batch
\* number batchIndex.
handle(l, batch, batchIndex, r) ==
    IF r.threw THEN [l EXCEPT !.threw = TRUE]
    ELSE IF r.error THEN onServiceError(l, batch)
    ELSE IF r.hasSegments
    THEN IF \E i \in 1..Len(r.segments) : relabelThrows(r.segments[i], batchIndex)
         THEN [l EXCEPT !.threw = TRUE]
         ELSE LET batchSegments ==
                      [i \in 1..Len(r.segments) |->
                          relabel(r.segments[i], batchIndex, l.offset)]
              IN  Loop(l.all \o batchSegments,
                       Cardinality(speakersInBatch(batchSegments)),
                       FALSE)
    ELSE [l EXCEPT !.all = @ \o batch]

Message(msg, a, b) == [msg |-> msg, a |-> a, b |-> b]

onExceptionRethrow(segments) == [status |-> "rejected", value |-> <<>>]

\* catch (error) { ...; return segments; }
onException(segments) == [status |-> "returned", value |-> segments]

awaitsInvokeNever == FALSE

\* const { data, error } = await supabase.functions.invoke(...): the loop
\* is suspended until the call has answered.
awaitsInvoke == TRUE

tooShortBelowTwo(segments) == Len(segments) < 2

\* if (segments.length <= 2)
tooShort(segments) == Len(segments) <= 2

\* The request of one invoke call: {body: {segments: batch}}
Body(segs, batchIndex) == [segments |-> batches(segs)[batchIndex + 1]]

\* The batch message without the test batches.length > 1.
BatchMessageAlways(segs, batchIndex) ==
    <<Message("Analyzing speakers (batch a/b)...", batchIndex + 1,
              NumBatches(segs))>>

\* if (batches.length > 1) onProgress?.(`Analyzing speakers (batch ...)...`)
BatchMessage(segs, batchIndex) ==
    IF NumBatches(segs) > 1
    THEN <<Message("Analyzing speakers (batch a/b)...", batchIndex + 1,
                   NumBatches(segs))>>
    ELSE <<>>

\* uniqueSpeakers.size of the final message
IdentifiedMessage(all) ==
    Message("Identified a speaker(s)", Cardinality(speakersInBatch(all)), 0)

\* diarizeSegments is called with one of the inputs.
DInit ==
    /\ SupInit
    /\ QueueOff
    /\ NormOff
    /\ PrepOff
    /\ dSegs \in {rawSegments(n) : n \in DLens}
    /\ dPc = "called"
    /\ dBatchIndex = 0
    /\ dAll = <<>>
    /\ dOffset = 0
    /\ dInflight = {}
    /\ dSent = <<>>
    /\ dOuts = <<>>
    /\ dProgress = <<>>
    /\ dResult = [status |-> "none", value |-> <<>>]

\* The call runs up to its first await or return.
DStart ==
    /\ dPc = "called"
    /\ IF Len(dSegs) = 0
       THEN /\ dPc' = "done"
            /\ dResult' = [status |-> "returned", value |-> dSegs]
            /\ UNCHANGED <<dSegs, dBatchIndex, dAll, dOffset, dInflight,
                           dSent, dOuts, dProgress>>
       ELSE IF tooShort(dSegs)
       THEN /\ dPc' = "done"
            /\ dProgress' =
                   <<Message("Analyzing speakers...", 0, 0),
                     Message("Transcript too short for speaker analysis", 0, 0)>>
            /\ dResult' = [status |-> "returned", value |-> dSegs]
            /\ UNCHANGED <<dSegs, dBatchIndex, dAll, dOffset, dInflight,
                           dSent, dOuts>>
       ELSE IF awaitsInvoke
       THEN /\ dPc' = "await"
            /\ dProgress' = <<Message("Analyzing speakers...", 0, 0)>>
                                \o BatchMessage(dSegs, 0)
            /\ dInflight' = {0}
            /\ dSent' = <<Body(dSegs, 0)>>
            /\ UNCHANGED <<dSegs, dBatchIndex, dAll, dOffset, dOuts, dResult>>
       ELSE \* not suspended: data and error are undefined for every batch
            /\ dPc' = "done"
            /\ dInflight' = 0..(NumBatches(dSegs) - 1)
            /\ dSent' = [b \in 1..NumBatches(dSegs) |-> Body(dSegs, b - 1)]
            /\ dBatchIndex' = NumBatches(dSegs)
            /\ dAll' = dSegs
            /\ dProgress' = <<Message("Analyzing speakers...", 0, 0),
                              IdentifiedMessage(dSegs)>>
            /\ dResult' = [status |-> "returned", value |-> dSegs]
            /\ UNCHANGED <<dSegs, dOffset, dOuts>>

\* The call invoke made for batch dBatchIndex ends as o says; the loop body
\* handles it and runs on to the next invoke, to the return after the loop,
\* or into the catch block.
DRespond(o) ==
    /\ dPc = "await"
    /\ dBatchIndex \in dInflight
    /\ LET batch == batches(dSegs)[dBatchIndex + 1]
           l == handle(Loop(dAll, dOffset, FALSE), batch, dBatchIndex,
                       invoke(batch, o))
           next == dBatchIndex + 1
       IN  /\ dOuts' = Append(dOuts, o)
           /\ IF l.threw
              THEN /\ dPc' = "done"
                   /\ dInflight' = dInflight \ {dBatchIndex}
                   /\ dProgress' = Append(dProgress,
                          Message("Speaker analysis unavailable, using default speaker", 0, 0))
                   /\ dResult' = onException(dSegs)
                   /\ UNCHANGED <<dSegs, dBatchIndex, dAll, dOffset, dSent>>
              ELSE IF next < NumBatches(dSegs)
              THEN /\ dPc' = "await"
                   /\ dBatchIndex' = next
                   /\ dAll' = l.all
                   /\ dOffset' = l.offset
                   /\ dInflight' = (dInflight \ {dBatchIndex}) \cup {next}
                   /\ dSent' = Append(dSent, Body(dSegs, next))
                   /\ dProgress' = dProgress \o BatchMessage(dSegs, next)
                   /\ UNCHANGED <<dSegs, dResult>>
              ELSE /\ dPc' = "done"
                   /\ dBatchIndex' = next
                   /\ dAll' = l.all
                   /\ dOffset' = l.offset
                   /\ dInflight' = dInflight \ {dBatchIndex}
                   /\ dProgress' = Append(dProgress, IdentifiedMessage(l.all))
                   /\ dResult' = [status |-> "returned", value |-> l.all]
                   /\ UNCHANGED <<dSegs, dSent>>

\* The variables the specification of diarizeSegments leaves alone.
nonDiarVars == <<vars, qvars, nvars, pvars>>

DNext ==
    \/ DStart /\ UNCHANGED nonDiarVars
    \/ \E o \in Outcomes : DRespond(o) /\ UNCHANGED nonDiarVars

SpecDiar == DInit /\ [][DNext]_allVars

-----------------------------------------------------------------------------
(* Properties of diarizeSegments *)

Last(s) == s[Len(s)]

\* The call ended in its catch block.
Caught ==
    /\ dPc = "done"
    /\ dProgress # <<>>
    /\ Last(dProgress).msg = "Speaker analysis unavailable, using default speaker"

\* The positions of the input that batch number b (from 0) holds.
BatchRange(segs, b) ==
    (b * MAX_SEGMENTS_PER_BATCH + 1)..
        Min((b + 1) * MAX_SEGMENTS_PER_BATCH, Len(segs))

\* const batch = batches[batchIndex]
batchAt(segs, batchIndex) ==
    slice(segs, batchIndex * MAX_SEGMENTS_PER_BATCH,
                batchIndex * MAX_SEGMENTS_PER_BATCH + MAX_SEGMENTS_PER_BATCH)

\* The loop's locals after the answers outs[b], outs[b + 1], ... up to
\* outs[n] were handled in order, starting with the locals l; an exception
\* ends the loop.
RECURSIVE RunFrom(_, _, _, _, _)
RunFrom(segs, outs, b, n, l) ==
    IF b > n \/ l.threw THEN l
    ELSE RunFrom(segs, outs, b + 1, n,
                 handle(l, batchAt(segs, b - 1), b - 1,
                        invoke(batchAt(segs, b - 1), outs[b])))

RunPrefix(segs, outs, n) == RunFrom(segs, outs, 1, n, Loop(<<>>, 0, FALSE))

\* What diarizeSegments returns for a long input when the service answers
\* as outs says.
Returned(segs, outs) ==
    LET l == RunPrefix(segs, outs, Len(outs))
    IN  IF l.threw THEN segs ELSE l.all

\* s and t are the same outside the positions lo..hi.
SameOutside(s, t, lo, hi) ==
    /\ Len(s) = Len(t)
    /\ SubSeq(s, 1, lo - 1) = SubSeq(t, 1, lo - 1)
    /\ SubSeq(s, hi + 1, Len(s)) = SubSeq(t, hi + 1, Len(t))

\* C13: diarizeSegments never rejects: whatever the service does (error
\* result, answer without segments, malformed data, exception) the call
\* ends by returning a segment list, and the input itself when an
\* exception was caught.
C13_NeverFailsOutward ==
    /\ dResult.status \in {"none", "returned"}
    /\ dPc = "done" <=> dResult.status = "returned"
    /\ dPc = "done" => Len(dResult.value) = Len(dSegs)
    /\ (dOuts # <<>> /\ Last(dOuts).kind = "throws") => Caught
    /\ Caught => dResult.value = dSegs

\* Two batches were labelled, the answer for the third held a speaker that
\* is not a string; the call returned its input.
C13_Witness ==
    /\ Caught
    /\ Len(dOuts) = 3
    /\ Last(dOuts).kind = "assign"
    /\ \E i \in 1..Len(dAll) : dAll[i].speaker # dSegs[i].speaker
    /\ dResult = [status |-> "returned", value |-> dSegs]

IsSpeakerNumber(l) ==
    /\ l.isString
    /\ Len(l.s) > Len(SpeakerPrefix)
    /\ HasAt(l.s, 1, SpeakerPrefix)
    /\ \A i \in (Len(SpeakerPrefix) + 1)..Len(l.s) : IsDigit(l.s[i])

SpeakerNumber(l) ==
    DigitsValue(SubSeq(l.s, Len(SpeakerPrefix) + 1, Len(l.s)), 0)

\* C15: when a batch k > 0 is answered with segments, every label
\* "Speaker <n>" of the answer is merged as "Speaker <n + offset>", offset
\* being the number of distinct speaker labels the preceding batch has in
\* the merged list.
C15_OffsetRelabel ==
    [][(/\ dPc = "await"
        /\ dBatchIndex > 0
        /\ Len(dOuts') = Len(dOuts) + 1
        /\ Last(dOuts').kind \in {"unparsable", "assign"}
        /\ Len(dAll') > Len(dAll))
          => LET answer == invoke(batchAt(dSegs, dBatchIndex), Last(dOuts'))
                 offset == Cardinality({dAll[i].speaker :
                               i \in BatchRange(dSegs, dBatchIndex - 1)})
             IN  \A i \in 1..Len(answer.segments) :
                     IsSpeakerNumber(answer.segments[i].speaker)
                         => dAll'[Len(dAll) + i].speaker =
                                SpeakerN(SpeakerNumber(answer.segments[i].speaker)
                                             + offset)]_dvars

\* C16: the list returned has the length of the input and at every
\* position the text and the timestamp of the input segment there; so has
\* the merged list for the batches handled so far.
C16_OnlySpeakersChange ==
    /\ Len(dAll) <= Len(dSegs)
    /\ \A i \in 1..Len(dAll) :
          /\ dAll[i].text = dSegs[i].text
          /\ dAll[i].timestamp = dSegs[i].timestamp
    /\ dPc = "done" =>
          /\ Len(dResult.value) = Len(dSegs)
          /\ \A i \in 1..Len(dSegs) :
                /\ dResult.value[i].text = dSegs[i].text
                /\ dResult.value[i].timestamp = dSegs[i].timestamp

\* Three batches were answered with segments and the call returned a list
\* whose speakers differ from the input's.
C16_Witness ==
    /\ dPc = "done"
    /\ Len(dOuts) = DMaxBatches
    /\ \A k \in 1..Len(dOuts) : dOuts[k].kind = "assign"
    /\ dResult.status = "returned"
    /\ \A b \in 0..(DMaxBatches - 1) :
          \E i \in BatchRange(dSegs, b) :
              dResult.value[i].speaker # dSegs[i].speaker

\* C17: requests are sent for batch 0, 1, 2, ... in this order, each only
\* when every earlier one has been answered and handled: at most one is in
\* flight.
C17_OneBatchAtATime ==
    /\ Cardinality(dInflight) <= 1
    /\ dInflight \subseteq {dBatchIndex}
    /\ Len(dSent) = Len(dOuts) + Cardinality(dInflight)
    /\ \A j \in 1..Len(dSent) : dSent[j] = Body(dSegs, j - 1)

\* The request for the last batch is in flight, the earlier ones answered.
C17_Witness ==
    /\ dInflight = {DMaxBatches - 1}
    /\ Len(dOuts) = DMaxBatches - 1
    /\ Len(dSent) = DMaxBatches

\* The segments of the requests sent so far, one after the other.
RECURSIVE SentSegments(_)
SentSegments(sent) ==
    IF sent = <<>> THEN <<>>
    ELSE SentSegments(SubSeq(sent, 1, Len(sent) - 1)) \o Last(sent).segments

\* The requests sent are consecutive pieces of the input, from its start,
\* each of at least one and at most MAX_SEGMENTS_PER_BATCH segments.
ConsecutiveBatches ==
    /\ \A j \in 1..Len(dSent) :
          /\ Len(dSent[j].segments) >= 1
          /\ Len(dSent[j].segments) <= MAX_SEGMENTS_PER_BATCH
    /\ Len(SentSegments(dSent)) <= Len(dSegs)
    /\ SentSegments(dSent) = SubSeq(dSegs, 1, Len(SentSegments(dSent)))

\* C18 as stated: a call with 0, 1 or 2 segments returns its input and
\* sends no request; a call with 3 or more segments has sent, when it
\* ends, one request for each of the consecutive batches of at most 100
\* the input is split into.
C18_OncePerBatch ==
    dPc = "done" =>
        IF Len(dSegs) <= 2
        THEN dResult.value = dSegs /\ dSent = <<>>
        ELSE /\ ConsecutiveBatches
             /\ SentSegments(dSent) = dSegs

\* C18, amended: a call with 0, 1 or 2 segments returns its input and
\* sends no request; a call with 3 or more segments sends requests for
\* consecutive batches of at most 100, from the start of the input; when
\* it ends without an exception it has sent one for every batch, and when
\* an exception ended it no request was sent after the one whose handling
\* raised it.
C18_OncePerBatchUntilException ==
    /\ Len(dSegs) <= 2 =>
          /\ dSent = <<>>
          /\ dPc = "done" => dResult.value = dSegs
    /\ Len(dSegs) >= 3 =>
          /\ ConsecutiveBatches
          /\ dPc # "called" => dSent # <<>>
          /\ (dPc = "done" /\ ~Caught) => SentSegments(dSent) = dSegs
          /\ Caught => Len(dSent) = Len(dOuts) /\ dResult.value = dSegs

\* An input of three batches: the handling of the second answer raised an
\* exception and the third batch was never sent.
C18_Witness ==
    /\ Caught
    /\ NumBatches(dSegs) = 3
    /\ Len(dSent) = 2
    /\ Len(SentSegments(dSent)) < Len(dSegs)

-----------------------------------------------------------------------------
(***************************************************************************)
(* Part III: the queue processor of src/src/components/Dashboard.tsx: the  *)
(* effect processQueue, processProject and handleRetryProject.  The state  *)
(* is the component's React state and the stored project rows.  One        *)
(* action is one run of the effect or one continuation of an async         *)
(* function, from the end of an await to the next await or to the end.     *)
(***************************************************************************)

\* The dashboard has loaded the user's projects: uploaded and waiting,
\* transcribed, or failed in an earlier session; "ABSENT" is a file the
\* user has not uploaded yet.
QInit ==
    /\ SupInit
    /\ DiarOff
    /\ NormOff
    /\ PrepOff
    /\ isProcessingQueue = FALSE
    /\ qStatus \in [Projects -> {"ABSENT", "QUEUED", "COMPLETED", "ERROR"}]
    /\ qStored = qStatus
    /\ qPc = [p \in Projects |-> "none"]
    /\ qRetrying = [p \in Projects |-> FALSE]
    /\ projectErrors = {}

\* projects.find(p => p.status === ProjectStatus.QUEUED)
nextProject ==
    IF \E p \in Projects : qStatus[p] = "QUEUED"
    THEN CHOOSE p \in Projects :
             /\ qStatus[p] = "QUEUED"
             /\ \A q \in Projects : qStatus[q] = "QUEUED" => p <= q
    ELSE 0

\* The catch block of processProject up to its await:
\* await updateProject(project.id, {status: ProjectStatus.ERROR})
catchError(pcs, p) == [pcs EXCEPT ![p] = "markError"]

\* The guard is dropped: processQueue starts whatever the flag says.
queueIdleAlways == TRUE

\* if (isProcessingQueue) return;
queueIdle == ~isProcessingQueue

\* The effect runs after a render in which projects or isProcessingQueue
\* changed: processQueue up to the first await of processProject.
ProcessQueue ==
    /\ queueIdle
    /\ nextProject # 0
    /\ isProcessingQueue' = TRUE
    /\ projectErrors' = projectErrors \ {nextProject}
    /\ qPc' = [qPc EXCEPT ![nextProject] = "markProcessing"]
    /\ UNCHANGED <<qStatus, qStored, qRetrying>>

\* await updateProject(project.id, {status: PROCESSING}) ends.
StatusUpdated(p, ok) ==
    /\ qPc[p] = "markProcessing"
    /\ IF ok
       THEN /\ qStored' = [qStored EXCEPT ![p] = "PROCESSING"]
            /\ qStatus' = [qStatus EXCEPT ![p] = "PROCESSING"]
            /\ qPc' = [qPc EXCEPT ![p] = "download"]
       ELSE /\ qPc' = catchError(qPc, p)
            /\ UNCHANGED <<qStored, qStatus>>
    /\ UNCHANGED <<isProcessingQueue, qRetrying, projectErrors>>

\* await downloadFile(project.storage_path) ends; a null blob throws.
Downloaded(p, ok) ==
    /\ qPc[p] = "download"
    /\ qPc' = IF ok THEN [qPc EXCEPT ![p] = "transcribe"] ELSE catchError(qPc, p)
    /\ UNCHANGED <<isProcessingQueue, qStatus, qStored, qRetrying, projectErrors>>

\* await transcribeWithWhisper(file, setProgressText) resolves or rejects.
Transcribed(p, ok) ==
    /\ qPc[p] = "transcribe"
    /\ qPc' = IF ok THEN [qPc EXCEPT ![p] = "save"] ELSE catchError(qPc, p)
    /\ UNCHANGED <<isProcessingQueue, qStatus, qStored, qRetrying, projectErrors>>

\* await updateProject(project.id, {status: COMPLETED, transcription})
\* ends.  When it succeeded processProject returns and processQueue runs
\* setIsProcessingQueue(false).
Saved(p, ok) ==
    /\ qPc[p] = "save"
    /\ IF ok
       THEN /\ qStored' = [qStored EXCEPT ![p] = "COMPLETED"]
            /\ qStatus' = [qStatus EXCEPT ![p] = "COMPLETED"]
            /\ qPc' = [qPc EXCEPT ![p] = "none"]
            /\ isProcessingQueue' = FALSE
       ELSE /\ qPc' = catchError(qPc, p)
            /\ UNCHANGED <<qStored, qStatus, isProcessingQueue>>
    /\ UNCHANGED <<qRetrying, projectErrors>>

\* await updateProject(project.id, {status: ERROR}) in the catch block
\* ends.  When it throws, the exception leaves processProject and
\* processQueue: setIsProcessingQueue(false) is not reached.
ErrorRecorded(p, ok) ==
    /\ qPc[p] = "markError"
    /\ qPc' = [qPc EXCEPT ![p] = "none"]
    /\ IF ok
       THEN /\ qStored' = [qStored EXCEPT ![p] = "ERROR"]
            /\ qStatus' = [qStatus EXCEPT ![p] = "ERROR"]
            /\ projectErrors' = projectErrors \cup {p}
            /\ isProcessingQueue' = FALSE
       ELSE UNCHANGED <<qStored, qStatus, projectErrors, isProcessingQueue>>
    /\ UNCHANGED qRetrying

\* handleIncomingFiles for one file, after await createProject: the new
\* row is stored with status QUEUED and added to the list.
Upload(p) ==
    /\ qStatus[p] = "ABSENT"
    /\ qStored' = [qStored EXCEPT ![p] = "QUEUED"]
    /\ qStatus' = [qStatus EXCEPT ![p] = "QUEUED"]
    /\ UNCHANGED <<isProcessingQueue, qPc, qRetrying, projectErrors>>

\* The retry button, shown for a project in status ERROR:
\* handleRetryProject up to its await.
Retry(p) ==
    /\ qStatus[p] = "ERROR"
    /\ ~qRetrying[p]
    /\ qRetrying' = [qRetrying EXCEPT ![p] = TRUE]
    /\ projectErrors' = projectErrors \ {p}
    /\ UNCHANGED <<isProcessingQueue, qStatus, qStored, qPc>>

\* await updateProject(project.id, {status: QUEUED}) of the retry ends.
RetryUpdated(p, ok) ==
    /\ qRetrying[p]
    /\ qRetrying' = [qRetrying EXCEPT ![p] = FALSE]
    /\ IF ok
       THEN /\ qStored' = [qStored EXCEPT ![p] = "QUEUED"]
            /\ qStatus' = [qStatus EXCEPT ![p] = "QUEUED"]
       ELSE UNCHANGED <<qStored, qStatus>>
    /\ UNCHANGED <<isProcessingQueue, qPc, projectErrors>>

\* The variables the queue's specification leaves alone.
nonQueueVars == <<vars, dvars, nvars, pvars>>

QNext ==
    \/ ProcessQueue /\ UNCHANGED nonQueueVars
    \/ \E p \in Projects, ok \in BOOLEAN : StatusUpdated(p, ok) /\ UNCHANGED nonQueueVars
    \/ \E p \in Projects, ok \in BOOLEAN : Downloaded(p, ok) /\ UNCHANGED nonQueueVars
    \/ \E p \in Projects, ok \in BOOLEAN : Transcribed(p, ok) /\ UNCHANGED nonQueueVars
    \/ \E p \in Projects, ok \in BOOLEAN : Saved(p, ok) /\ UNCHANGED nonQueueVars
    \/ \E p \in Projects, ok \in BOOLEAN : ErrorRecorded(p, ok) /\ UNCHANGED nonQueueVars
    \/ \E p \in Projects : Upload(p) /\ UNCHANGED nonQueueVars
    \/ \E p \in Projects : Retry(p) /\ UNCHANGED nonQueueVars
    \/ \E p \in Projects, ok \in BOOLEAN : RetryUpdated(p, ok) /\ UNCHANGED nonQueueVars

SpecQueue == QInit /\ [][QNext]_allVars

\* C19: when the download or the transcription of a project fails, the
\* job ends with that project in status ERROR, no other project's status
\* changed and the queue processor idle again (so that it takes the next
\* QUEUED project); a retry sets that project, and no other, to QUEUED.
C19_FailureIsJobState ==
    [][/\ \A p \in Projects :
             (qPc[p] = "markError" /\ qPc'[p] = "none")
                => /\ qStatus'[p] = "ERROR"
                   /\ \A q \in Projects \ {p} : qStatus'[q] = qStatus[q]
                   /\ ~isProcessingQueue'
       /\ \A p \in Projects :
             (qRetrying[p] /\ ~qRetrying'[p] /\ qStatus' # qStatus)
                => qStatus' = [qStatus EXCEPT ![p] = "QUEUED"]]_qvars

-----------------------------------------------------------------------------
(***************************************************************************)
(* Part IV: what transcribeWithWhisper makes of the worker's 'complete'    *)
(* message (whisperService.ts 292-314) and returns after diarizeSegments   *)
(* (329-331).  Texts are sequences of characters; an optional value is a   *)
(* record that says whether it is there.                                   *)
(***************************************************************************)

\* Longest whole-text output of the model.
MaxTextLen == 3

\* The characters of the texts: a blank and a letter.
TextChars == {" ", "a"}

Texts == UNION {[1..n -> TextChars] : n \in 0..MaxTextLen}

\* A property or value that may be missing (undefined).
Absent == [has |-> FALSE, v |-> <<>>]

Present(v) == [has |-> TRUE, v |-> v]

\* A number, or null where isNull.
JSNumber(n) == [isNull |-> FALSE, n |-> n]

JSNull == [isNull |-> TRUE, n |-> 0]

\* White space as String.prototype.trim sees it, among TextChars.
IsSpace(ch) == ch = " "

RECURSIVE trimStart(_)
trimStart(s) ==
    IF s # <<>> /\ IsSpace(Head(s)) THEN trimStart(Tail(s)) ELSE s

RECURSIVE trimEnd(_)
trimEnd(s) ==
    IF s # <<>> /\ IsSpace(s[Len(s)])
    THEN trimEnd(SubSeq(s, 1, Len(s) - 1))
    ELSE s

trimNothing(s) == s

\* String.prototype.trim
trim(s) == trimEnd(trimStart(s))

\* 'No transcription available'
NoTranscription ==
    <<"N", "o", " ", "t", "r", "a", "n", "s", "c", "r", "i", "p", "t",
      "i", "o", "n", " ", "a", "v", "a", "i", "l", "a", "b", "l",
      "e">>

\* chunk.timestamp: an array whose element 0 is v, a number v, or missing.
Timestamp(shape, v) == [shape |-> shape, v |-> v]

Chunk(timestamp, text) == [timestamp |-> timestamp, text |-> text]

\* Chunks of the shapes the pipeline gives with return_timestamps, and
\* malformed ones.
Chunks ==
    {Chunk(Timestamp("array", JSNumber(0)), Present(<<" ", "a">>)),
     Chunk(Timestamp("array", JSNull), Present(<<"a", " ">>)),
     Chunk(Timestamp("number", JSNumber(2)), Present(<<" ">>)),
     Chunk(Timestamp("absent", JSNumber(0)), Absent)}

\* output.chunks: missing, empty, or one or two chunks.
ChunkLists ==
    {Absent, Present(<<>>)}
        \cup {Present(<<c>>) : c \in Chunks}
        \cup {Present(<<c, d>>) : c, d \in Chunks}

\* e.data.output
Outputs == [chunks : ChunkLists, text : {Absent} \cup {Present(s) : s \in Texts}]

\* Array.isArray(chunk.timestamp) ? chunk.timestamp[0] : chunk.timestamp || 0
chunkTimestamp(c) ==
    IF c.timestamp.shape = "array" THEN c.timestamp.v
    ELSE IF c.timestamp.shape = "number" /\ c.timestamp.v.n # 0 THEN c.timestamp.v
    ELSE JSNumber(0)

\* (chunk.text || '').trim()
chunkText(c) == IF c.text.has THEN trim(c.text.v) ELSE <<>>

Segment(timestamp, text) ==
    [timestamp |-> timestamp, text |-> text, speaker |-> SpeakerN(1)]

\* The fallback without its placeholder: output?.text?.trim() alone.
fallbackTextNoPlaceholder(output) ==
    IF output.text.has THEN trim(output.text.v) ELSE <<>>

\* output?.text?.trim() || 'No transcription available'
fallbackText(output) ==
    IF output.text.has /\ trim(output.text.v) # <<>>
    THEN trim(output.text.v)
    ELSE NoTranscription

\* const chunks = output?.chunks || []; if (chunks.length === 0) {...}
\* else {...}: the segments the transcription promise resolves with.
toSegments(output) ==
    LET chunks == IF output.chunks.has THEN output.chunks.v ELSE <<>>
    IN  IF Len(chunks) = 0
        THEN <<Segment(JSNumber(0), fallbackText(output))>>
        ELSE [i \in 1..Len(chunks) |->
                 Segment(chunkTimestamp(chunks[i]), chunkText(chunks[i]))]

\* transcribeWithWhisper waits for the worker's 'complete' message.
NInit ==
    /\ SupInit
    /\ DiarOff
    /\ QueueOff
    /\ PrepOff
    /\ nOutput \in Outputs
    /\ nPc = "waiting"
    /\ nSegments = <<>>
    /\ nResult = <<>>

\* The 'complete' branch of the transcription handler: resolve(segments).
Complete ==
    /\ nPc = "waiting"
    /\ nPc' = "resolved"
    /\ nSegments' = toSegments(nOutput)
    /\ UNCHANGED <<nOutput, nResult>>

\* const diarizedSegments = await diarizeSegments(rawSegments, onProgress);
\* return diarizedSegments; for the one or two segments of this part
\* diarizeSegments gives its input back.
ReturnDiarized ==
    /\ nPc = "resolved"
    /\ tooShort(nSegments)
    /\ nPc' = "returned"
    /\ nResult' = nSegments
    /\ UNCHANGED <<nOutput, nSegments>>

\* The variables this part's specification leaves alone.
nonNormVars == <<vars, dvars, qvars, pvars>>

NNext ==
    \/ Complete /\ UNCHANGED nonNormVars
    \/ ReturnDiarized /\ UNCHANGED nonNormVars

SpecNorm == NInit /\ [][NNext]_allVars

ZeroChunks == ~nOutput.chunks.has \/ nOutput.chunks.v = <<>>

\* r is t without the white space at its two ends.
IsTrimOf(r, t) ==
    \E a, b \in 0..Len(t) :
        /\ a + Len(r) + b = Len(t)
        /\ SubSeq(t, a + 1, a + Len(r)) = r
        /\ \A i \in 1..a : IsSpace(t[i])
        /\ \A i \in (Len(t) - b + 1)..Len(t) : IsSpace(t[i])
        /\ r # <<>> => ~IsSpace(r[1]) /\ ~IsSpace(r[Len(r)])

\* C20 as stated: for a 'complete' message with no chunks and a non-empty
\* text, transcribeWithWhisper returns exactly one segment, at timestamp
\* 0, whose text is that text.
C20_WholeTextSegment ==
    (nPc = "returned" /\ ZeroChunks /\ nOutput.text.has /\ nOutput.text.v # <<>>)
        => /\ Len(nResult) = 1
           /\ nResult[1].timestamp = JSNumber(0)
           /\ nResult[1].text = nOutput.text.v

\* C20, amended: for a 'complete' message with no chunks and a non-empty
\* text, transcribeWithWhisper returns exactly one segment, at timestamp
\* 0, whose text is that text without the white space at its ends, or
\* 'No transcription available' when the text is white space only.
C20_TrimmedTextSegment ==
    (nPc = "returned" /\ ZeroChunks /\ nOutput.text.has /\ nOutput.text.v # <<>>)
        => /\ Len(nResult) = 1
           /\ nResult[1].timestamp = JSNumber(0)
           /\ nResult[1].text # <<>>
           /\ IF \E i \in 1..Len(nOutput.text.v) : ~IsSpace(nOutput.text.v[i])
              THEN IsTrimOf(nResult[1].text, nOutput.text.v)
              ELSE nResult[1].text = NoTranscription

\* The text " a" with no chunks came back as the one segment "a".
C20_Witness ==
    /\ nPc = "returned"
    /\ nOutput = [chunks |-> Present(<<>>), text |-> Present(<<" ", "a">>)]
    /\ nResult = <<Segment(JSNumber(0), <<"a">>)>>

\* The text of the 'complete' message is absent, empty or white space only.
BlankText ==
    \/ ~nOutput.text.has
    \/ \A i \in 1..Len(nOutput.text.v) : IsSpace(nOutput.text.v[i])

\* C21: for a 'complete' message with no chunks and an absent, empty or
\* white-space-only text, transcribeWithWhisper resolves with exactly one
\* segment whose text is a non-empty placeholder; hence the segment list of
\* every 'complete' message, resolved and returned, is never empty.
C21_PlaceholderSegment ==
    /\ (nPc \in {"resolved", "returned"} /\ ZeroChunks /\ BlankText)
           => /\ Len(nSegments) = 1
              /\ nSegments[1].text = NoTranscription
              /\ nSegments[1].text # <<>>
    /\ nPc \in {"resolved", "returned"} => Len(nSegments) >= 1
    /\ nPc = "returned" => nResult = nSegments /\ Len(nResult) >= 1

\* No chunks and the text "  " came back as the one placeholder segment.
C21_Witness ==
    /\ nPc = "returned"
    /\ nOutput = [chunks |-> Absent, text |-> Present(<<" ", " ">>)]
    /\ nResult = <<Segment(JSNumber(0), NoTranscription)>>

-----------------------------------------------------------------------------
\* Part V.  The transcription timeout, whisperService.ts 273-285.

\* const TARGET_SAMPLE_RATE = 16000;
TARGET_SAMPLE_RATE == 16000

\* The two limits of the timeout, in ms.
ThirtyMinutes == 30 * 60 * 1000
SixHours == 6 * 60 * 60 * 1000

Max(a, b) == IF a > b THEN a ELSE b

\* audioSeconds * 20 * 1000, with audioSeconds = length / TARGET_SAMPLE_RATE,
\* as an exact number of quarters of a millisecond: the product is
\* length * 20000 / 16000 = 5 * length / 4 ms.
QuartersPerMs == 4

\* Quarter milliseconds of timeout per sample: 20 * 1000 * 4 / 16000 = 5.
QuartersPerSample == (20 * 1000 * QuartersPerMs) \div TARGET_SAMPLE_RATE

quarterMs(length) == length * QuartersPerSample

\* Math.round of a number of quarter milliseconds.  Math.round takes an
\* exact half up, but the double (length / 16000) * 20 * 1000 of an exact
\* half is for some lengths the double just below it (length 22 gives
\* 27.499999999999996, rounded to 27) and for others the half itself
\* (length 2 gives 2.5, rounded to 3): both outcomes are kept.
MathRound(q) ==
    IF q % QuartersPerMs = QuartersPerMs \div 2
    THEN {q \div QuartersPerMs, q \div QuartersPerMs + 1}
    ELSE {(2 * q + QuartersPerMs) \div (2 * QuartersPerMs)}

\* Math.min(6 h, ms) alone, without the lower limit.
clampNoFloor(ms) == Min(SixHours, ms)

\* Math.min(6 * 60 * 60 * 1000, Math.max(30 * 60 * 1000, ms))
clamp(ms) == Min(SixHours, Max(ThirtyMinutes, ms))

\* The delays setTimeout can be given for a recording of that many samples.
timeoutsOf(length) == {clamp(ms) : ms \in MathRound(quarterMs(length))}

\* How far around each length of interest the recordings are taken.
TDelta == 10

\* The recording lengths at which the exact product reaches a limit.
LengthAt(ms) == (ms * QuartersPerMs) \div QuartersPerSample

\* Recordings around no audio at all, around the two limits and half way.
Lengths ==
    {n \in UNION {(l - TDelta)..(l + TDelta) :
                     l \in {0, LengthAt(ThirtyMinutes),
                            LengthAt((ThirtyMinutes + SixHours) \div 2),
                            LengthAt(SixHours)}} : n >= 0}

\* getAudioData has resolved with a recording.
TInit ==
    /\ SupInit
    /\ DiarOff
    /\ QueueOff
    /\ NormOff
    /\ AudioOff
    /\ ServerOff
    /\ WindowsOff
    /\ audioDataLength \in Lengths
    /\ timeoutMs = NoTimer

\* const timeout = setTimeout(() => {...}, timeoutMs);
ArmTimeout ==
    /\ timeoutMs = NoTimer
    /\ timeoutMs' \in timeoutsOf(audioDataLength)
    /\ UNCHANGED audioDataLength

\* The variables this part's specification leaves alone.
nonTimeoutVars == <<vars, dvars, qvars, nvars, avars, xvars, wvars>>

TNext == ArmTimeout /\ UNCHANGED nonTimeoutVars

SpecTimeout == TInit /\ [][TNext]_allVars

\* clamp(x, lo, hi) of a number of quarter milliseconds, in the same unit.
ClampQuarters(q) ==
    Min(SixHours * QuartersPerMs, Max(ThirtyMinutes * QuartersPerMs, q))

\* The timeout is between the limits and no recording longer than this
\* one can get a shorter timeout.
WithinLimitsAndMonotone ==
    /\ timeoutMs >= ThirtyMinutes
    /\ timeoutMs <= SixHours
    /\ \A n \in Lengths :
           n > audioDataLength => \A ms \in timeoutsOf(n) : timeoutMs <= ms

\* C22 as stated: the timeout equals clamp(durationSeconds * 20 * 1000 ms,
\* 30 minutes, 6 hours): never below 30 minutes, never above 6 hours, the
\* product itself in between, and non-decreasing in the duration.
C22_TimeoutIsClamp ==
    timeoutMs # NoTimer
        => /\ timeoutMs * QuartersPerMs = ClampQuarters(quarterMs(audioDataLength))
           /\ WithinLimitsAndMonotone

\* C22, amended: the timeout is a whole number of milliseconds at most
\* half a millisecond from clamp(durationSeconds * 20 * 1000 ms, 30
\* minutes, 6 hours), the product itself where that is whole; never below
\* 30 minutes, never above 6 hours, and non-decreasing in the duration.
C22_TimeoutIsRoundedClamp ==
    timeoutMs # NoTimer
        => LET exact == ClampQuarters(quarterMs(audioDataLength))
               diff == timeoutMs * QuartersPerMs - exact
           IN  /\ diff <= QuartersPerMs \div 2
               /\ 0 - diff <= QuartersPerMs \div 2
               /\ exact % QuartersPerMs = 0 => diff = 0
               /\ WithinLimitsAndMonotone

\* A recording one sample over 30 minutes' worth of timeout: the product
\* is 1,800,001.25 ms and the timer is armed with 1,800,001 ms.
C22_Witness ==
    /\ audioDataLength = LengthAt(ThirtyMinutes) + 1
    /\ timeoutMs = ThirtyMinutes + 1

-----------------------------------------------------------------------------
\* Part VI.  getAudioData with downmixToMono and downsampleBuffer,
\* whisperService.ts 178-259.  Samples are exact rationals: the rounding
\* of the Float32Array stores is left out.

\* The longest decoded buffer and the most channels.
MaxSamples == 4
MaxChannels == 2

RECURSIVE GCD(_, _)
GCD(a, b) == IF b = 0 THEN a ELSE GCD(b, a % b)

Abs(n) == IF n < 0 THEN 0 - n ELSE n

\* The number n / d, d > 0, in lowest terms.
Rat(n, d) ==
    LET g == GCD(Abs(n), d)
    IN  [num |-> n \div g, den |-> d \div g]

RatAdd(x, y) == Rat(x.num * y.den + y.num * x.den, x.den * y.den)

RatDiv(x, n) == Rat(x.num, x.den * n)

\* The sample values of the decoded channels.
SampleValues == {Rat(0 - 1, 1), Rat(1, 1)}

\* decoded.sampleRate: below, at and above the target rate.
SampleRates == {8000, TARGET_SAMPLE_RATE, 22050, 24000, 32000, 44100, 48000}

\* The decoded AudioBuffers: every channel has buffer.length samples.  The
\* empty buffer is kept for the functions' behaviour on every input.
AudioBuffers ==
    UNION {UNION {[sampleRate : SampleRates, length : {n},
                   channels : [1..c -> [1..n -> SampleValues]]]
                     : c \in 1..MaxChannels} : n \in 0..MaxSamples}

\* for (ch = 0; ch < numberOfChannels; ch++) out[i] += data[i], for one i,
\* from channel ch on.
RECURSIVE addChannels(_, _, _, _)
addChannels(channels, i, ch, out) ==
    IF ch > Len(channels) THEN out
    ELSE addChannels(channels, i, ch + 1, RatAdd(out, channels[ch][i]))

\* The sum of the channels left undivided.
divideByNothing(x, buffer) == x

\* out[i] /= buffer.numberOfChannels
divideByChannels(x, buffer) == RatDiv(x, Len(buffer.channels))

downmixToMono(buffer) ==
    IF Len(buffer.channels) = 1 THEN buffer.channels[1]
    ELSE [i \in 1..buffer.length |->
             divideByChannels(addChannels(buffer.channels, i, 1, Rat(0, 1)), buffer)]

\* Math.round(n * inputSampleRate / outputSampleRate) and
\* Math.round(n / (inputSampleRate / outputSampleRate)): the quotient n / d
\* of non-negative numbers rounded to the nearest integer, halves up.  For
\* the rates of the model the doubles round as the exact quotients do.
MathRoundQuotient(n, d) == (2 * n + d) \div (2 * d)

\* for (i = inputOffset; i < nextInputOffset && i < input.length; i++)
\* { sum += input[i]; count++; }, from index i on (indices from 0).
RECURSIVE sumWindow(_, _, _, _)
sumWindow(input, i, nextInputOffset, acc) ==
    IF i < nextInputOffset /\ i < Len(input)
    THEN sumWindow(input, i + 1, nextInputOffset,
                   [sum |-> RatAdd(acc.sum, input[i + 1]), count |-> acc.count + 1])
    ELSE acc

\* The next window's start rounded down instead of to the nearest.
nextInputOffsetFloor(outputOffset, inRate, outRate) ==
    ((outputOffset + 1) * inRate) \div outRate

\* The start of the window taken for its end.
nextInputOffsetSame(outputOffset, inRate, outRate) ==
    MathRoundQuotient(outputOffset * inRate, outRate)

\* const nextInputOffset = Math.round((outputOffset + 1) * ratio);
nextInputOffsetOf(outputOffset, inRate, outRate) ==
    MathRoundQuotient((outputOffset + 1) * inRate, outRate)

\* The while loop of downsampleBuffer from outputOffset on.
RECURSIVE downsampleFrom(_, _, _, _, _, _, _)
downsampleFrom(input, inRate, outRate, outputLength, outputOffset, inputOffset, output) ==
    IF outputOffset < outputLength
    THEN LET nextInputOffset == nextInputOffsetOf(outputOffset, inRate, outRate)
             w == sumWindow(input, inputOffset, nextInputOffset,
                            [sum |-> Rat(0, 1), count |-> 0])
             sample == IF w.count # 0 THEN RatDiv(w.sum, w.count)
                       ELSE IF inputOffset < Len(input) THEN input[inputOffset + 1]
                       ELSE Rat(0, 1)
         IN  downsampleFrom(input, inRate, outRate, outputLength, outputOffset + 1,
                            nextInputOffset, Append(output, sample))
    ELSE output

\* What a call gives: a value returned or an error thrown.
Returns(v) == [threw |-> FALSE, value |-> v, message |-> ""]
Throws(m) == [threw |-> TRUE, value |-> <<>>, message |-> m]

UnsupportedSampleRate == "Unsupported audio sample rate. Please convert to MP3/WAV and try again."
DecodingTimedOut == "Audio decoding timed out. Please try a smaller file or convert to MP3/WAV."
CouldNotDecode == "Could not decode this audio in your browser."

\* A new, empty array instead of the input.
sameRateResultEmpty(input) == <<>>

\* if (inputSampleRate === outputSampleRate) return input;
sameRateResult(input) == input

\* No rate is refused.
isUpsamplingNever(inputSampleRate, outputSampleRate) == FALSE

\* if (inputSampleRate < outputSampleRate) throw ...
isUpsampling(inputSampleRate, outputSampleRate) == inputSampleRate < outputSampleRate

downsampleBuffer(input, inputSampleRate, outputSampleRate) ==
    IF inputSampleRate = outputSampleRate THEN Returns(sameRateResult(input))
    ELSE IF isUpsampling(inputSampleRate, outputSampleRate) THEN Throws(UnsupportedSampleRate)
    ELSE Returns(downsampleFrom(input, inputSampleRate, outputSampleRate,
                     MathRoundQuotient(Len(input) * outputSampleRate, inputSampleRate),
                     0, 0, <<>>))

\* getAudioData is called with a file.
AInit ==
    /\ SupInit
    /\ DiarOff
    /\ QueueOff
    /\ NormOff
    /\ TimeoutOff
    /\ ServerOff
    /\ WindowsOff
    /\ audioCtx = "none"
    /\ decoded \in AudioBuffers
    /\ aPc = "called"
    /\ mono = <<>>
    /\ audioData = NoAudioData

\* throw new Error(err?.message || "Could not decode ...") of the catch.
rethrow(message) == IF message # "" THEN message ELSE CouldNotDecode

\* await file.arrayBuffer() resolved; new AudioContext();
\* audioCtx.decodeAudioData(arrayBuffer) is started under withTimeout.
FileRead ==
    /\ aPc = "called"
    /\ aPc' = "decoding"
    /\ audioCtx' = "running"
    /\ UNCHANGED <<decoded, mono, audioData>>

\* await file.arrayBuffer() rejected, with a message or without one.
FileReadFailed(message) ==
    /\ aPc = "called"
    /\ aPc' = "thrown"
    /\ audioData' = [samples |-> <<>>, error |-> rethrow(message)]
    /\ UNCHANGED <<audioCtx, decoded, mono>>

\* decodeAudioData resolved: downmixToMono, downsampleBuffer, and either
\* the catch block or the await of audioCtx.close().
AudioDecoded ==
    /\ aPc = "decoding"
    /\ LET downsampled == downsampleBuffer(downmixToMono(decoded), decoded.sampleRate,
                                           TARGET_SAMPLE_RATE)
       IN  /\ mono' = downmixToMono(decoded)
           /\ IF downsampled.threw
              THEN /\ aPc' = "thrown"
                   /\ audioData' = [samples |-> <<>>, error |-> rethrow(downsampled.message)]
              ELSE /\ aPc' = "closing"
                   /\ audioData' = [samples |-> downsampled.value, error |-> ""]
    /\ UNCHANGED <<audioCtx, decoded>>

\* decodeAudioData rejected, with a message or without one.
AudioDecodeFailed(message) ==
    /\ aPc = "decoding"
    /\ aPc' = "thrown"
    /\ audioData' = [samples |-> <<>>, error |-> rethrow(message)]
    /\ UNCHANGED <<audioCtx, decoded, mono>>

\* The 5 minute timer of withTimeout fired before decodeAudioData settled.
AudioDecodeTimedOut ==
    /\ aPc = "decoding"
    /\ aPc' = "thrown"
    /\ audioData' = [samples |-> <<>>, error |-> rethrow(DecodingTimedOut)]
    /\ UNCHANGED <<audioCtx, decoded, mono>>

\* await audioCtx.close() resolved; return downsampled.
AudioClosed ==
    /\ aPc = "closing"
    /\ aPc' = "returned"
    /\ audioCtx' = "closed"
    /\ UNCHANGED <<decoded, mono, audioData>>

\* The messages of the errors of the browser: one with a text, one without.
BrowserMessages == {"", "EncodingError: Unable to decode audio data"}

\* The variables this part's specification leaves alone.
nonAudioVars == <<vars, dvars, qvars, nvars, tvars, xvars, wvars>>

ANext ==
    \/ FileRead /\ UNCHANGED nonAudioVars
    \/ \E m \in BrowserMessages : FileReadFailed(m) /\ UNCHANGED nonAudioVars
    \/ AudioDecoded /\ UNCHANGED nonAudioVars
    \/ \E m \in BrowserMessages : AudioDecodeFailed(m) /\ UNCHANGED nonAudioVars
    \/ AudioDecodeTimedOut /\ UNCHANGED nonAudioVars
    \/ AudioClosed /\ UNCHANGED nonAudioVars

SpecAudio == AInit /\ [][ANext]_allVars

\* downmixToMono and downsampleBuffer have run and not thrown.
Downsampled == aPc \in {"closing", "returned"}

\* The integer nearest to n / d, the upper one of two.
Nearest(n, d) ==
    CHOOSE r \in 0..(n \div d + 1) : 2 * d * r - d <= 2 * n /\ 2 * n < 2 * d * r + d

\* The indices (from 1) of the input samples in the window of output
\* sample k (from 1): from round((k - 1) * ratio) to round(k * ratio)
\* exclusive, with ratio = inRate / outRate.
Window(k, n, inRate, outRate) ==
    {i \in 1..n : /\ Nearest((k - 1) * inRate, outRate) < i
                  /\ i <= Nearest(k * inRate, outRate)}

RECURSIVE SumOf(_, _)
SumOf(input, W) ==
    IF W = {} THEN Rat(0, 1)
    ELSE LET i == CHOOSE j \in W : TRUE
         IN  RatAdd(input[i], SumOf(input, W \ {i}))

\* x is the arithmetic mean of the samples of input at the indices W.
IsMean(x, input, W) == W # {} /\ x = RatDiv(SumOf(input, W), Cardinality(W))

IsConstant(s) == \A i, j \in 1..Len(s) : s[i] = s[j]

\* C23: with inputRate > outputRate downsampleBuffer returns
\* round(inputLength / (inputRate / outputRate)) samples, each the
\* arithmetic mean of the input samples in its window; a constant input
\* gives that constant at every index of the output.
C23_MeanOfWindow ==
    (Downsampled /\ decoded.sampleRate > TARGET_SAMPLE_RATE)
        => LET out == audioData.samples
           IN  /\ Len(out) = Nearest(Len(mono) * TARGET_SAMPLE_RATE, decoded.sampleRate)
               /\ \A k \in 1..Len(out) :
                      IsMean(out[k], mono,
                             Window(k, Len(mono), decoded.sampleRate, TARGET_SAMPLE_RATE))
               /\ IsConstant(mono) => \A k \in 1..Len(out) : out[k] = mono[1]

\* Three samples 1, -1, 1 at 24 kHz became the two samples 0 and 1.
C23_Witness ==
    /\ aPc = "returned"
    /\ decoded = [sampleRate |-> 24000, length |-> 3,
                  channels |-> <<<<Rat(1, 1), Rat(0 - 1, 1), Rat(1, 1)>>>>]
    /\ audioData.samples = <<Rat(0, 1), Rat(1, 1)>>

\* downmixToMono has run: downsampleBuffer returned or threw after it.
Downmixed ==
    \/ Downsampled
    \/ aPc = "thrown" /\ audioData.error = UnsupportedSampleRate

\* The samples at index i of all channels.
AcrossChannels(buffer, i) ==
    [c \in 1..Len(buffer.channels) |-> buffer.channels[c][i]]

\* C24: for a decoded buffer of one or more channels downmixToMono returns
\* as many samples as the buffer has, sample i being the arithmetic mean
\* of the channels' samples i: (L + R) / 2 for stereo, the input itself
\* for mono.
C24_MeanOverChannels ==
    Downmixed
        => /\ Len(mono) = decoded.length
           /\ \A i \in 1..decoded.length :
                  IsMean(mono[i], AcrossChannels(decoded, i), 1..Len(decoded.channels))
           /\ Len(decoded.channels) = 2
                  => \A i \in 1..decoded.length :
                         mono[i] = RatDiv(RatAdd(decoded.channels[1][i],
                                                 decoded.channels[2][i]), 2)
           /\ Len(decoded.channels) = 1 => mono = decoded.channels[1]

\* Left 1, 1, -1 and right -1, 1, -1 became 0, 1, -1.
C24_Witness ==
    /\ Downmixed
    /\ decoded.channels = << <<Rat(1, 1), Rat(1, 1), Rat(0 - 1, 1)>>,
                             <<Rat(0 - 1, 1), Rat(1, 1), Rat(0 - 1, 1)>> >>
    /\ mono = <<Rat(0, 1), Rat(1, 1), Rat(0 - 1, 1)>>

\* C25: downsampleBuffer called with inputRate < outputRate throws the
\* unsupported-sample-rate error and returns no samples, for every input,
\* the empty one too.
C25_UpsamplingThrows ==
    [][(AudioDecoded /\ decoded.sampleRate < TARGET_SAMPLE_RATE)
          => /\ downsampleBuffer(mono', decoded.sampleRate, TARGET_SAMPLE_RATE)
                    = Throws(UnsupportedSampleRate)
             /\ aPc' = "thrown"
             /\ audioData' = [samples |-> <<>>, error |-> UnsupportedSampleRate]]_allVars

\* An empty buffer at 8 kHz was refused.
C25_Witness ==
    /\ aPc = "thrown"
    /\ decoded.sampleRate < TARGET_SAMPLE_RATE
    /\ decoded.length = 0
    /\ audioData = [samples |-> <<>>, error |-> UnsupportedSampleRate]

\* C26: with inputRate equal to outputRate downsampleBuffer is the
\* identity: the output has the length of the input and the same sample at
\* every index.
C26_SameRateIdentity ==
    (Downsampled /\ decoded.sampleRate = TARGET_SAMPLE_RATE)
        => /\ Len(audioData.samples) = Len(mono)
           /\ \A i \in 1..Len(mono) : audioData.samples[i] = mono[i]

\* Three samples at 16 kHz came back as they were.
C26_Witness ==
    /\ aPc = "returned"
    /\ decoded.sampleRate = TARGET_SAMPLE_RATE
    /\ mono = <<Rat(1, 1), Rat(0 - 1, 1), Rat(1, 1)>>
    /\ audioData.samples = mono

\* C27: on every path out of getAudioData (samples returned, decode error,
\* decode timeout, unsupported sample rate) the audio context the call
\* created is closed.
C27_ContextReleased ==
    aPc \in {"returned", "thrown"} => audioCtx # "running"

-----------------------------------------------------------------------------
\* Part I, continued: timers and listeners of earlier attempts.

\* The contexts this step terminates.
TerminatedByStep == {k \in Ctxs : Live(ctx[k]) /\ ~Live(ctx'[k])}

\* C28: the timer and the listener of a load or transcribe attempt are
\* torn down when the attempt ends or the worker is reset, so that a timer
\* left over from an earlier attempt never resets a worker context created
\* by a later attempt: a timer that fires terminates no context but the
\* one its own attempt ran on.
C28_NoLeftoverTimer ==
    [][\A c \in Calls :
          /\ (loadTimer[c] = "armed" /\ loadTimer'[c] = "fired")
                 => TerminatedByStep \subseteq {loadHandler[c]}
          /\ (txTimer[c] = "armed" /\ txTimer'[c] = "fired")
                 => TerminatedByStep \subseteq {txHandler[c]}]_vars

-----------------------------------------------------------------------------
\* Part II, continued: labels across batches and the progress messages.

\* The service numbered the speakers of the batch 1..m.
NumberedFromOne(o) ==
    /\ o.kind = "assign"
    /\ \A j \in 1..Len(o.cycle) : o.cycle[j] = SpeakerN(j)

\* The labels the merged list has for batch number b (from 0).
LabelsOfBatch(b) == {dAll[i].speaker : i \in BatchRange(dSegs, b)}

\* Batch number b (from 0) has been answered and merged.
Merged(b) ==
    /\ b < Len(dOuts)
    /\ b < NumBatches(dSegs)
    /\ Min((b + 1) * MAX_SEGMENTS_PER_BATCH, Len(dSegs)) <= Len(dAll)

\* C29: when the service numbers the speakers of each batch 1..m, no label
\* "Speaker <n>" that the merged list has for a batch k > 0 is a label it
\* has for batch k - 1.
C29_NoLabelCollision ==
    \A k \in 1..(DMaxBatches - 1) :
        (/\ Merged(k)
         /\ NumberedFromOne(dOuts[k])
         /\ NumberedFromOne(dOuts[k + 1]))
            => {l \in LabelsOfBatch(k) : IsSpeakerNumber(l)}
                   \cap LabelsOfBatch(k - 1) = {}

\* How many of the messages given to onProgress satisfy P.
CountOf(P(_)) == Cardinality({i \in 1..Len(dProgress) : P(dProgress[i])})

IsIdentified(m) == m.msg = "Identified a speaker(s)"

\* The number of distinct speaker labels of the list returned.
DistinctSpeakers ==
    Cardinality({dResult.value[i].speaker : i \in 1..Len(dResult.value)})

\* C30 as stated: for an input of more than 2 segments onProgress has been
\* called, when the call ends, exactly once for every batch with a status
\* message (the batch message, or the one message "Analyzing speakers..."
\* of a single batch) and exactly once, last, with the number of distinct
\* speaker labels of the whole result.
C30_OncePerBatchThenCount ==
    (dPc = "done" /\ Len(dSegs) > 2)
        => /\ IF NumBatches(dSegs) = 1
              THEN Len(dProgress) = 2
              ELSE \A b \in 1..NumBatches(dSegs) :
                       LET IsBatch(m) ==
                               m = Message("Analyzing speakers (batch a/b)...",
                                           b, NumBatches(dSegs))
                       IN  CountOf(IsBatch) = 1
           /\ CountOf(IsIdentified) = 1
           /\ Last(dProgress) = Message("Identified a speaker(s)", DistinctSpeakers, 0)

\* The handling of the answers so far raised an exception.
Raised == RunPrefix(dSegs, dOuts, Len(dOuts)).threw

\* The batch messages of the first n batches, in order; none for an input
\* of a single batch.
BatchMessages(n) ==
    IF NumBatches(dSegs) > 1
    THEN [b \in 1..n |-> Message("Analyzing speakers (batch a/b)...", b,
                                 NumBatches(dSegs))]
    ELSE <<>>

\* C30, amended: for an input of more than 2 segments onProgress is called
\* once with "Analyzing speakers..."; then, when there is more than one
\* batch, exactly once for every batch before its request is sent; and
\* exactly once at the end: with the number of distinct speaker labels of
\* the whole result when every batch was handled, or with "Speaker analysis
\* unavailable, using default speaker" when an exception ended the call,
\* the batches after the failing one getting no message.
C30_ProgressSequence ==
    (dPc \in {"await", "done"} /\ Len(dSegs) > 2)
        => LET start == <<Message("Analyzing speakers...", 0, 0)>>
                            \o BatchMessages(Len(dSent))
           IN  /\ dPc = "await" => dProgress = start
               /\ (dPc = "done" /\ ~Raised)
                      => /\ Len(dSent) = NumBatches(dSegs)
                         /\ dProgress = Append(start,
                                Message("Identified a speaker(s)", DistinctSpeakers, 0))
               /\ (dPc = "done" /\ Raised)
                      => dProgress = Append(start,
                             Message("Speaker analysis unavailable, using default speaker", 0, 0))

\* Two batches, both answered: four messages, the last with two speakers.
C30_Witness ==
    /\ dPc = "done"
    /\ NumBatches(dSegs) = 2
    /\ ~Raised
    /\ Len(dProgress) = 4
    /\ Last(dProgress) = Message("Identified a speaker(s)", 2, 0)

-----------------------------------------------------------------------------
\* Part IV, continued: the segments made from chunks.

\* C31: every segment transcribeWithWhisper makes of a 'complete' message
\* has a timestamp that is a number, not null, and at least 0, whatever
\* the shape of the chunk's timestamp: a number, a pair (with null
\* elements too) or none.
C31_TimestampIsNumber ==
    nPc \in {"resolved", "returned"}
        => \A i \in 1..Len(nSegments) :
               /\ ~nSegments[i].timestamp.isNull
               /\ nSegments[i].timestamp.n >= 0

\* C32: a segment has empty text only in the fallback for no chunks:
\* every segment made from a chunk has a non-empty text.
C32_ChunkTextNonEmpty ==
    (nPc \in {"resolved", "returned"} /\ ~ZeroChunks)
        => \A i \in 1..Len(nSegments) : nSegments[i].text # <<>>

-----------------------------------------------------------------------------
\* Part I, continued: the worker script's answers.

\* The listener of context k takes a request of that type in this step.
Receives(k, type) ==
    /\ ctx[k].st = "running"
    /\ ctx'[k].st = "running"
    /\ ctx[k].inbox # <<>>
    /\ Head(ctx[k].inbox).type = type
    /\ ctx'[k].inbox = Tail(ctx[k].inbox)

\* C33: every Load the worker script receives is answered by exactly one
\* 'ready' or 'error' and every Transcribe by exactly one 'complete' or
\* 'error', a Load that arrives while another is running and a Transcribe
\* that arrives before the model is loaded too: the step that receives a
\* request posts its answer or starts the work that will post it.
C33_EveryRequestAnswered ==
    [][\A k \in Ctxs :
          /\ Receives(k, "load")
                 => \/ /\ Len(ctx'[k].outbox) = Len(ctx[k].outbox) + 1
                       /\ Last(ctx'[k].outbox).status \in {"ready", "error"}
                    \/ ~ctx[k].isLoading /\ ctx'[k].isLoading
          /\ Receives(k, "transcribe")
                 => \/ /\ Len(ctx'[k].outbox) = Len(ctx[k].outbox) + 1
                       /\ Last(ctx'[k].outbox) = Out("error", Head(ctx[k].inbox).req)
                    \/ ctx'[k].running = ctx[k].running \cup {Head(ctx[k].inbox).req}]_vars

\* C39: in every state workerReady implies that worker is a context that
\* is not terminated and has its model loaded, and that workerReadyPromise
\* is not null; workerReady is only ever set by the 'ready' of the context
\* worker refers to, never by one of a context that was reset.
C39_ReadyMeansLoadedWorker ==
    [][/\ workerReady'
              => /\ worker' # 0
                 /\ Live(ctx'[worker'])
                 /\ ctx'[worker'].transcriber
                 /\ workerReadyPromise' # 0
       /\ (~workerReady /\ workerReady')
              => /\ worker # 0
                 /\ worker' = worker
                 /\ Deliverable(worker, "ready")]_vars

\* The worker is ready and a transcription runs on it.
C39_Witness ==
    /\ workerReady
    /\ \E c \in Calls : pc[c] = "transcribing" /\ c \in ctx[worker].running


\* ---------------------------------------------------------------------
\* Part VII.  The diarize edge function (supabase/functions/diarize).
\* One request is served; the function's API key is configured.

EMaxSegs == 2
EMaxAssign == 2

\* A segment of the request body.  The timestamp is null when the segment
\* was built from a chunk whose timestamp pair starts with null.
ESegment(timestamp, text, speaker) ==
    [timestamp |-> timestamp, text |-> text, speaker |-> speaker]

ESegmentsOfLen(n) ==
    {s \in [1..n -> [timestamp : {JSNull} \cup {JSNumber(k) : k \in 0..EMaxSegs},
                     text : 1..EMaxSegs,
                     speaker : {SpeakerN(1), Host}]] :
        \A i \in 1..n : /\ s[i].text = i
                        /\ s[i].timestamp \in {JSNull, JSNumber(i - 1)}}

ERequests == UNION {ESegmentsOfLen(n) : n \in 0..EMaxSegs}

\* An element of the array the model's reply holds: an object with an
\* index and a speaker (the empty string stands for a speaker that is
\* empty, null or missing), or null.
Assignment(index, speaker) ==
    [isNull |-> FALSE, index |-> index, speaker |-> speaker]

NullEntry == [isNull |-> TRUE, index |-> 0, speaker |-> StringLabel(<<>>)]

Assignments ==
    {Assignment(i, l) : i \in 0..EMaxSegs, l \in {SpeakerN(2), StringLabel(<<>>)}}

AssignmentListsOfLen(n) == [1..n -> Assignments \cup {NullEntry}]

\* What the gateway answers: a failure status, a body that is not JSON,
\* or a completion whose content has no bracketed part, has one that is
\* not JSON, or has one that is a JSON array.
GatewayReply(shape, status, array) ==
    [shape |-> shape, status |-> status, array |-> array]

GatewayReplies ==
    {GatewayReply("notOk", s, <<>>) : s \in {429, 402, 500}}
        \cup {GatewayReply(s, 200, <<>>) : s \in {"notJson", "noMatch", "unparsable"}}
        \cup {GatewayReply("array", 200, a) :
                 a \in UNION {AssignmentListsOfLen(n) : n \in 0..EMaxAssign}}

\* speakerAssignments.find(a => a.index === i): the first element whose
\* index is i; reading .index of a null element throws.
RECURSIVE find(_, _)
find(speakerAssignments, i) ==
    IF speakerAssignments = <<>>
    THEN [outcome |-> "undefined", value |-> NullEntry]
    ELSE IF Head(speakerAssignments).isNull
    THEN [outcome |-> "throws", value |-> NullEntry]
    ELSE IF Head(speakerAssignments).index = i
    THEN [outcome |-> "found", value |-> Head(speakerAssignments)]
    ELSE find(Tail(speakerAssignments), i)

\* The speaker is never taken from the assignment.
speakerOfSegmentOnly(found, seg) == seg.speaker

\* assignment?.speaker || seg.speaker
speakerOf(found, seg) ==
    IF found.outcome = "found" /\ Truthy(found.value.speaker)
    THEN found.value.speaker
    ELSE seg.speaker

\* segments.map((seg, i) => ({...seg, speaker: ...})); i counts from 0.
diarizedSegments(segments, speakerAssignments) ==
    [i \in 1..Len(segments) |->
        [segments[i] EXCEPT
            !.speaker = speakerOf(find(speakerAssignments, i - 1), segments[i])]]

Response(status, body) == [status |-> status, body |-> body]

SegmentsBody(segments) == [has |-> "segments", segments |-> segments, error |-> ""]

ErrorBody(message) == [has |-> "error", segments |-> <<>>, error |-> message]

\* seg.timestamp.toFixed(1) throws on a null timestamp.
toFixedThrows(segments) == \E i \in 1..Len(segments) : segments[i].timestamp.isNull

findThrows(segments, speakerAssignments) ==
    \E i \in 1..Len(segments) : find(speakerAssignments, i - 1).outcome = "throws"

\* The handler of a POST request, from the body to the Response.
serve(segments, reply) ==
    IF segments = <<>> THEN Response(200, SegmentsBody(<<>>))
    ELSE IF toFixedThrows(segments) THEN Response(500, ErrorBody("TypeError"))
    ELSE IF reply.shape = "notOk" /\ reply.status = 429
    THEN Response(429, ErrorBody("Rate limit exceeded. Please try again in a moment."))
    ELSE IF reply.shape = "notOk" /\ reply.status = 402
    THEN Response(402, ErrorBody("AI credits exhausted. Please add credits to continue."))
    ELSE IF reply.shape = "notOk" THEN Response(500, ErrorBody("AI gateway error"))
    ELSE IF reply.shape = "notJson" THEN Response(500, ErrorBody("SyntaxError"))
    ELSE IF reply.shape = "unparsable" THEN Response(200, SegmentsBody(segments))
    ELSE IF findThrows(segments, reply.array)
    THEN Response(500, ErrorBody("TypeError"))
    ELSE Response(200, SegmentsBody(diarizedSegments(segments, reply.array)))

EInit ==
    /\ SupInit /\ DiarOff /\ QueueOff /\ NormOff /\ TimeoutOff /\ AudioOff
    /\ StorageOff
    /\ WindowsOff
    /\ eSegments \in ERequests
    /\ eReply \in GatewayReplies
    /\ ePc = "received"
    /\ eResponse = <<>>

nonEdgeVars == <<vars, dvars, qvars, nvars, tvars, avars, svars, wvars>>

Serve ==
    /\ ePc = "received"
    /\ eResponse' = serve(eSegments, eReply)
    /\ ePc' = "responded"
    /\ UNCHANGED <<eSegments, eReply>>
    /\ UNCHANGED nonEdgeVars

ENext == Serve

SpecEdge == EInit /\ [][ENext]_allVars

\* The function answered with a list of segments.
Succeeded == ePc = "responded" /\ eResponse.status = 200

\* The positions of the reply's array that hold an assignment for index i.
PositionsFor(i) ==
    {p \in 1..Len(eReply.array) :
        ~eReply.array[p].isNull /\ eReply.array[p].index = i}

FirstFor(i) ==
    eReply.array[CHOOSE p \in PositionsFor(i) : \A q \in PositionsFor(i) : p <= q]

SameTextAndTimestamp ==
    /\ Len(eResponse.body.segments) = Len(eSegments)
    /\ \A i \in 1..Len(eSegments) :
           /\ eResponse.body.segments[i].text = eSegments[i].text
           /\ eResponse.body.segments[i].timestamp = eSegments[i].timestamp

UnparsableGivesOriginal ==
    (ePc = "responded" /\ eSegments # <<>> /\ ~toFixedThrows(eSegments)
        /\ eReply.shape = "unparsable")
        => eResponse = Response(200, SegmentsBody(eSegments))

\* C34, as stated: on success the function returns one segment per input
\* segment, in order, with text and timestamp unchanged; segment i has the
\* speaker of the first assignment whose index is i, and its original
\* speaker when no assignment names i; an unparsable reply gives back the
\* original batch as a success.
C34_FirstAssignmentWins ==
    /\ UnparsableGivesOriginal
    /\ Succeeded =>
          /\ SameTextAndTimestamp
          /\ \A i \in 1..Len(eSegments) :
                eResponse.body.segments[i].speaker =
                    IF PositionsFor(i - 1) # {}
                    THEN FirstFor(i - 1).speaker
                    ELSE eSegments[i].speaker

\* C34, amended: segment i has the speaker of the first assignment whose
\* index is i when that speaker is not empty; when that speaker is empty,
\* or no assignment names i, it keeps its original speaker, whatever later
\* assignments for i say.  The rest as stated.
C34_FirstNonEmptyAssignmentWins ==
    /\ UnparsableGivesOriginal
    /\ Succeeded =>
          /\ SameTextAndTimestamp
          /\ \A i \in 1..Len(eSegments) :
                eResponse.body.segments[i].speaker =
                    IF PositionsFor(i - 1) # {} /\ Truthy(FirstFor(i - 1).speaker)
                    THEN FirstFor(i - 1).speaker
                    ELSE eSegments[i].speaker

\* A success in which one segment takes the speaker of its first
\* assignment although a second one names it, and another segment keeps
\* its speaker.
C34_Witness ==
    /\ Succeeded
    /\ Len(eSegments) = 2
    /\ eReply.shape = "array"
    /\ Len(eReply.array) = 2
    /\ PositionsFor(0) = {1, 2}
    /\ eResponse.body.segments[1].speaker = SpeakerN(2)
    /\ eSegments[1].speaker = Host
    /\ eResponse.body.segments[2].speaker = eSegments[2].speaker


\* ---------------------------------------------------------------------
\* Part III, continued: the runs of processProject.

\* The projects whose processProject run has started and not ended.
ActiveRuns == {p \in Projects : qPc[p] # "none"}

Starts(p) == qPc[p] = "none" /\ qPc'[p] # "none"

Ends(p) == qPc[p] # "none" /\ qPc'[p] = "none"

\* C35: at most one processProject run is active at any time, whatever
\* the uploads, retries and status updates: a run is active only while
\* isProcessingQueue is set, and the queue processor starts a run only
\* when the flag is clear and no run is active.
C35_OneRunAtATime ==
    /\ [](/\ Cardinality(ActiveRuns) <= 1
          /\ ActiveRuns # {} => isProcessingQueue)
    /\ [][\A p \in Projects :
             Starts(p) => /\ ~isProcessingQueue
                          /\ ActiveRuns = {}
                          /\ isProcessingQueue']_qvars

\* A run is transcribing while another project, uploaded after the run
\* began or sent back by a retry, waits in QUEUED.
C35_Witness ==
    /\ \E p \in Projects : qPc[p] = "transcribe"
    /\ \E q \in Projects : qStatus[q] = "QUEUED" /\ qPc[q] = "none"
    /\ \E q \in Projects : qStatus[q] = "ERROR" /\ qRetrying[q]

\* C36: when a processProject run ends, for whatever reason,
\* isProcessingQueue is false again.
C36_FlagClearedWhenRunEnds ==
    [][\A p \in Projects : Ends(p) => ~isProcessingQueue']_qvars


\* ---------------------------------------------------------------------
\* Part II, continued: the speaker offset from batch to batch.

\* Batch j (from 0) was answered with segments.
AnsweredWithSegments(j) == dOuts[j + 1].kind \in {"unparsable", "assign"}

\* The batches before batch k that were answered with segments.
SucceededBefore(k) == {j \in 0..(k - 1) : AnsweredWithSegments(j)}

LastSucceededBefore(k) ==
    CHOOSE j \in SucceededBefore(k) : \A i \in SucceededBefore(k) : i <= j

WMaxLen == 40

\* The while loop of downsampleBuffer from outputOffset on: for each
\* output sample the bounds inputOffset and nextInputOffset of its window
\* and the number of input samples the inner loop added up (count); the
\* sample is input[inputOffset] ?? 0 when count is 0.
RECURSIVE windowsFrom(_, _, _, _, _, _, _)
windowsFrom(input, inRate, outRate, outputLength, outputOffset, inputOffset, windows) ==
    IF outputOffset < outputLength
    THEN LET nextInputOffset == nextInputOffsetOf(outputOffset, inRate, outRate)
             w == sumWindow(input, inputOffset, nextInputOffset,
                            [sum |-> Rat(0, 1), count |-> 0])
         IN  windowsFrom(input, inRate, outRate, outputLength, outputOffset + 1,
                         nextInputOffset,
                         Append(windows, [inputOffset |-> inputOffset,
                                          nextInputOffset |-> nextInputOffset,
                                          count |-> w.count,
                                          fallback |-> w.count = 0]))
    ELSE windows

\* Input rates above the target rate: those of Part VI, rates close to
\* the target, and rates at which input.length / ratio falls on a half.
WRates ==
    {r \in SampleRates : r > TARGET_SAMPLE_RATE} \cup {17000, 20000, 64000, 96000}

\* downsampleBuffer is called with an input of some length at a rate
\* above the target rate.
WInit ==
    /\ SupInit /\ DiarOff /\ QueueOff /\ NormOff /\ TimeoutOff /\ AudioOff
    /\ ServerOff
    /\ wInput \in {[i \in 1..n |-> Rat(1, 1)] : n \in 0..WMaxLen}
    /\ wRate \in WRates
    /\ wPc = "called"
    /\ wWindows = <<>>

nonWindowVars == <<vars, dvars, qvars, nvars, tvars, avars, xvars>>

Downsample ==
    /\ wPc = "called"
    /\ wWindows' = windowsFrom(wInput, wRate, TARGET_SAMPLE_RATE,
                       MathRoundQuotient(Len(wInput) * TARGET_SAMPLE_RATE, wRate),
                       0, 0, <<>>)
    /\ wPc' = "returned"
    /\ UNCHANGED <<wInput, wRate>>
    /\ UNCHANGED nonWindowVars

WNext == Downsample

SpecWindows == WInit /\ [][WNext]_allVars

\* The input positions (from 0) added up for output sample k (from 1).
Positions(k) ==
    {i \in 0..(Len(wInput) - 1) :
        wWindows[k].inputOffset <= i /\ i < wWindows[k].nextInputOffset}

\* C40: when the input rate is above the output rate, the windows follow
\* one another (each starts where the one before ends, the first at 0),
\* no two share an input position, each holds at least one input sample,
\* and the fallback for an empty window is never taken.
C40_WindowsDisjointNonEmpty ==
    wPc = "returned"
        => /\ Len(wWindows) = MathRoundQuotient(Len(wInput) * TARGET_SAMPLE_RATE, wRate)
           /\ \A k \in 1..Len(wWindows) :
                 /\ wWindows[k].inputOffset =
                        IF k = 1 THEN 0 ELSE wWindows[k - 1].nextInputOffset
                 /\ Positions(k) # {}
                 /\ wWindows[k].count = Cardinality(Positions(k))
                 /\ ~wWindows[k].fallback
           /\ \A k, m \in 1..Len(wWindows) :
                 k # m => Positions(k) \cap Positions(m) = {}

\* A 22050 Hz input of which windows of one and of two samples are made,
\* the last one ending with the input.
C40_Witness ==
    /\ wPc = "returned"
    /\ wRate = 22050
    /\ Len(wWindows) >= 3
    /\ \E k \in 1..Len(wWindows) : Cardinality(Positions(k)) = 1
    /\ \E k \in 1..Len(wWindows) : Cardinality(Positions(k)) = 2
    /\ wWindows[Len(wWindows)].nextInputOffset >= Len(wInput)


\* ---------------------------------------------------------------------
\* Part VIII.  The projects table and its trigger enforce_storage_limit.
\* Every statement of the application runs in a transaction of its own
\* at the isolation level READ COMMITTED: the trigger's SELECT sees the
\* rows committed when it runs, and the statement's row becomes visible
\* to others when its transaction commits.

SMaxRows == 3

ProjectIds == 1..SMaxRows

Users == {"u1", "u2"}

\* Two connections, for instance two uploads under way at once.
Sessions == {"a", "b"}

\* storage_limit bigint := 1073741824
storage_limit == 1073741824

\* A value of the column file_size (bigint, nullable).
SqlInt(n) == [isNull |-> FALSE, n |-> n]

SqlNull == [isNull |-> TRUE, n |-> 0]

\* File sizes: none recorded, two bytes, and one byte less than half the
\* limit; two of the large files and a small one fill the limit exactly.
FileSizes == {SqlNull, SqlInt(2), SqlInt((storage_limit \div 2) - 1)}

Row(user_id, file_size) == [exists |-> TRUE, user_id |-> user_id, file_size |-> file_size]

NoRow == [exists |-> FALSE, user_id |-> "", file_size |-> SqlNull]

\* COALESCE(v, d)
COALESCE(v, d) == IF v.isNull THEN d ELSE v.n

\* SUM(file_size) over the rows with the given ids; NULLs add nothing.
RECURSIVE SUM(_, _)
SUM(table, ids) ==
    IF ids = {} THEN 0
    ELSE LET id == CHOOSE i \in ids : TRUE
         IN  COALESCE(table[id].file_size, 0) + SUM(table, ids \ {id})

\* SELECT COALESCE(SUM(file_size), 0) FROM projects
\* WHERE user_id = NEW.user_id AND id != NEW.id
current_usage(table, id, new) ==
    SUM(table, {i \in ProjectIds : /\ table[i].exists
                                   /\ table[i].user_id = new.user_id
                                   /\ i # id})

\* check_storage_limit(): whether the trigger raises for the row NEW with
\* the given id, against the rows it sees.
check_storage_limit(table, id, new) ==
    current_usage(table, id, new) + COALESCE(new.file_size, 0) > storage_limit

\* What a session is doing: nothing, holding a row its statement's
\* trigger let through and that is not committed yet, or back from a
\* statement the trigger refused.
Idle == [state |-> "idle", id |-> 0, row |-> NoRow]

Passed(id, row) == [state |-> "passed", id |-> id, row |-> row]

Refused(id, row) == [state |-> "raised", id |-> id, row |-> row]

SInit ==
    /\ SupInit /\ DiarOff /\ QueueOff /\ NormOff /\ TimeoutOff /\ AudioOff
    /\ EdgeOff /\ WindowsOff
    /\ sTable = [i \in ProjectIds |-> NoRow]
    /\ sPending = [s \in Sessions |-> Idle]

\* The row id is held by a statement of another session that has not
\* committed (a row lock, or an id already handed out).
HeldByOther(s, id) ==
    \E o \in Sessions \ {s} : sPending[o].state = "passed" /\ sPending[o].id = id

\* The BEFORE ROW trigger of a statement writing the row `new` under id.
Statement(s, id, new) ==
    /\ sPending[s].state # "passed"
    /\ ~HeldByOther(s, id)
    /\ sPending' = [sPending EXCEPT ![s] =
           IF check_storage_limit(sTable, id, new)
           THEN Refused(id, new)
           ELSE Passed(id, new)]
    /\ UNCHANGED sTable

\* INSERT INTO projects (...) of createProject.
Insert(s, id, user_id, file_size) ==
    /\ ~sTable[id].exists
    /\ Statement(s, id, Row(user_id, file_size))

\* UPDATE projects SET ... WHERE id = ...; file_size may stay as it is.
Update(s, id, file_size) ==
    /\ sTable[id].exists
    /\ Statement(s, id, Row(sTable[id].user_id, file_size))

\* The transaction of a statement the trigger let through commits.
Commit(s) ==
    /\ sPending[s].state = "passed"
    /\ sTable' = [sTable EXCEPT ![sPending[s].id] = sPending[s].row]
    /\ sPending' = [sPending EXCEPT ![s] = Idle]

nonStorageVars == <<vars, dvars, qvars, nvars, tvars, avars, evars, wvars>>

SNext ==
    \/ \E s \in Sessions, id \in ProjectIds, u \in Users, f \in FileSizes :
           Insert(s, id, u, f) /\ UNCHANGED nonStorageVars
    \/ \E s \in Sessions, id \in ProjectIds, f \in FileSizes :
           Update(s, id, f) /\ UNCHANGED nonStorageVars
    \/ \E s \in Sessions : Commit(s) /\ UNCHANGED nonStorageVars

SpecStorage == SInit /\ [][SNext]_allVars

\* get_user_storage_bytes(p_user_id)
get_user_storage_bytes(p_user_id) ==
    SUM(sTable, {i \in ProjectIds : sTable[i].exists /\ sTable[i].user_id = p_user_id})

\* C38: whatever inserts and updates the trigger has let through, the
\* file sizes of each user's projects add up to at most 1 GiB; and a
\* statement the trigger refuses leaves the table as it was.
C38_UsageWithinLimit ==
    /\ [](\A u \in Users : get_user_storage_bytes(u) <= storage_limit)
    /\ [][\A s \in Sessions :
             sPending'[s].state = "raised" => sTable' = sTable]_svars

====
